---- MODULE Spec2Model ----
(***************************************************************************)
(* Model of the PigChain route optimizer (src/backend/main.py): the        *)
(* multi-day planning loop of optimize_routes, the per-day route           *)
(* extraction of optimize_routes_for_day over the solutions the routing    *)
(* solver may return, and the greedy fallback greedy_route_assignment.     *)
(*                                                                         *)
(* Units.  Farms lie on the meridian of the slaughterhouse, so that the    *)
(* haversine distance of two locations is proportional to the difference   *)
(* of their latitudes; locations are integer multiples of one latitude     *)
(* step and distances are integers in metres.  A TruckRoute's distance_km  *)
(* (rounded to 2 decimals by the code) is an integer number of hundredths  *)
(* of a kilometre.                                                         *)
(*                                                                         *)
(* Weights are integers in grams, so that round(total_kg, 2) is a real     *)
(* rounding; a day's totalKg is an integer number of hundredths of a kg.   *)
(* price_per_kg is in cents per kg, a penalty factor is in hundredths, and *)
(* a day's totalEuros is an integer number of cents.  A mean weight is an  *)
(* exact fraction [num, den] of grams.  The requests are chosen so that    *)
(* weekly_weight_gain_kg / planning_days_per_week is a whole number of     *)
(* grams and no rounded weight or revenue lies exactly half way.           *)
(*                                                                         *)
(* truck_cost_per_week is in cents, fuel_cost_per_km and cost_per_km are   *)
(* in cents per km, and a day's costs and net profit are integers in       *)
(* cents.  Costs and ratios are kept as exact fractions before they are    *)
(* rounded; where the exact value lies half way between two roundings,     *)
(* the floating-point value the code rounds may lie on either side, and    *)
(* both roundings are outcomes.  The wall clock advances in ticks of a     *)
(* fraction of a second.                                                   *)
(***************************************************************************)
EXTENDS Integers, Sequences, FiniteSets, TLC

\* ------------------------------------------------------------------ bounds
MaxFarms == 4          \* farms in a request: 0..MaxFarms
MaxPigs == 2           \* available_pigs of a farm: 1..MaxPigs
MaxLocation == 2       \* latitude steps of a farm north of the slaughterhouse
MaxTruckCapacity == 4  \* truck_capacity: 1..MaxTruckCapacity
MaxDailyCapacity == 4  \* daily_capacity: 0..MaxDailyCapacity
MaxDays == 3           \* num_days of a request is at most MaxDays
MaxSize == 6           \* ... and at most MaxSize minus the number of its farms
DaysPerWeek == 2       \* planning_days_per_week of the request
MaxWeighedFarms == 2   \* farms in a request of WeightSpec: 0..MaxWeighedFarms
MaxWeighedPigs == 2    \* available_pigs of a farm in WeightSpec
MaxWeighedLoad == 2    \* truck_capacity and daily_capacity in WeightSpec
MaxServiceFarms == 1   \* farms in a request of ServiceSpec: 0..MaxServiceFarms
MaxClock == 3          \* the wall clock runs over the ticks 0..MaxClock
TicksPerSecond == 2    \* ticks of the wall clock in one second
MaxGreedyFarms == 2    \* farms in a direct call of greedy_route_assignment: 0..MaxGreedyFarms
MaxGreedyPigs == 2     \* available_pigs of a farm in such a call: 0..MaxGreedyPigs
MaxGreedyCapacity == 2 \* truck_capacity in such a call: 0..MaxGreedyCapacity
MaxGreedyDaily == 3    \* daily_capacity in such a call: 0..MaxGreedyDaily
MaxIterations == 5     \* the count of inner-loop iterations stays at MaxIterations

\* ------------------------------------------------------- program constants
StepMetres == 1112           \* haversine distance of one latitude step (0.01 degree, R = 6371)
MaxStopsPerRoute == 3        \* max_stops_per_route
SlaughterhouseLocation == 0  \* the depot: node 0 of the distance matrix
DefaultAvgPigWeightKg == 110000   \* avg_pig_weight_kg when the request omits it (grams)
DefaultPricePerKg == 156          \* price_per_kg when the request omits it (cents)
DefaultWeeklyWeightGainKg == 0    \* weekly_weight_gain_kg when the request omits it
DefaultPlanningDaysPerWeek == 5   \* planning_days_per_week when the request omits it
DefaultTruckCostPerWeek == 200000 \* truck_cost_per_week when the request omits it (cents)
DefaultFuelCostPerKm == 35        \* fuel_cost_per_km when the request omits it (cents)
DefaultWeeklyDeclineRate == 15    \* weekly_decline_rate when the request omits it (percent)

VARIABLES
    req,                 \* the OptimizationRequest being served
    pc,                  \* position in optimize_routes: "start", "plan", "done"
    day_offset,          \* the loop variable of the planning loop
    remaining_pigs,      \* farm_state[id]["remaining_pigs"]
    avg_weight_kg,       \* farm_state[id]["avg_weight_kg"]
    farm_weeks_visited,  \* farm_weeks_visited[id]: set of logical weeks
    days_data,           \* the day records appended so far
    solver_log,          \* per planned day: what the solver was given and returned
    status,              \* HTTP status of the response; 0 while planning
    trucks_used_per_day, \* the number of trucks of every day so far
    response,            \* the OptimizationResponse returned; None before, and on an error
    now,                 \* the wall clock, in ticks
    returned_ids,        \* the ids that other calls of the endpoint have returned
    deadline_expired_on, \* the day whose solver call a deadline of the caller ran out in
    greedy               \* a call of greedy_route_assignment taken by itself: its
                         \* arguments, locals and position; None in the handler's runs

vars == <<req, pc, day_offset, remaining_pigs, avg_weight_kg, farm_weeks_visited,
          days_data, solver_log, status, trucks_used_per_day, response, now,
          returned_ids, deadline_expired_on, greedy>>

\* what no step of the handler changes: the clock, the other callers and a
\* call of greedy_route_assignment taken by itself
surroundings == <<now, returned_ids, deadline_expired_on, greedy>>

\* ----------------------------------------------------------------- helpers
Min(a, b) == IF a <= b THEN a ELSE b
Max(a, b) == IF a >= b THEN a ELSE b
Abs(a) == IF a >= 0 THEN a ELSE -a
Last(s) == s[Len(s)]

RECURSIVE SumSeq(_)
SumSeq(s) == IF s = <<>> THEN 0 ELSE Head(s) + SumSeq(Tail(s))

RECURSIVE Concat(_)
Concat(ss) == IF ss = <<>> THEN <<>> ELSE Head(ss) \o Concat(Tail(ss))

RECURSIVE MaxSeq(_)
MaxSeq(s) == IF Len(s) = 1 THEN Head(s) ELSE Max(Head(s), MaxSeq(Tail(s)))

\* ceil(a / b) for a >= 0, b >= 1
CeilDiv(a, b) == (a + b - 1) \div b

\* ------------------------------------------------------- geodesic distance
\* haversine_distance for two points of one meridian, in metres
haversine_distance(loc1, loc2) == Abs(loc1 - loc2) * StepMetres

\* round(km, 2) of a distance given in metres, as hundredths of a km
round2(metres) == (metres + 5) \div 10

\* ------------------------------------------------------------ request data
\* An Optional field that the request leaves out
None == <<>>

\* Farms lie north of the slaughterhouse, have at least one pig, and leave
\* avg_weight_kg to the request's avg_pig_weight_kg.
FarmInputs == [location : 1..MaxLocation, available_pigs : 1..MaxPigs, avg_weight_kg : {None}]

\* The horizon the model gives a request of n farms: requests with many
\* farms are planned over fewer days.
HorizonFor(n) == Max(1, Min(MaxDays, MaxSize - n))

\* The requests of n farms.
RequestsOf(n) ==
    [farms : [1..n -> FarmInputs],
     truck_capacity : 1..MaxTruckCapacity,
     daily_capacity : 0..MaxDailyCapacity,
     num_days : {HorizonFor(n)},
     planning_days_per_week : {DaysPerWeek},
     avg_pig_weight_kg : {DefaultAvgPigWeightKg},
     price_per_kg : {DefaultPricePerKg},
     weekly_weight_gain_kg : {DefaultWeeklyWeightGainKg},
     truck_cost_per_week : {DefaultTruckCostPerWeek},
     fuel_cost_per_km : {DefaultFuelCostPerKm},
     cost_per_km : {None},
     weekly_decline_rate : {DefaultWeeklyDeclineRate}]

\* Requests that exercise the weights: few farms, one step from the
\* slaughterhouse, with mean weights on and around the penalty thresholds.
WeightSamples == {0, 99700, 100000, 104996, 105000, 114700, 115000, 115004, 120000, 122000}
FarmWeightSamples == {None, <<99000>>, <<122000>>}
WeeklyGainSamples == {0, 600}
WeighedFarmInputs == [location : {1}, available_pigs : 1..MaxWeighedPigs, avg_weight_kg : FarmWeightSamples]

WeightRequestsOf(n) ==
    [farms : [1..n -> WeighedFarmInputs],
     truck_capacity : 1..MaxWeighedLoad,
     daily_capacity : 0..MaxWeighedLoad,
     num_days : {MaxDays},
     planning_days_per_week : {DaysPerWeek},
     avg_pig_weight_kg : WeightSamples,
     price_per_kg : {DefaultPricePerKg},
     weekly_weight_gain_kg : WeeklyGainSamples,
     truck_cost_per_week : {DefaultTruckCostPerWeek},
     fuel_cost_per_km : {DefaultFuelCostPerKm},
     cost_per_km : {None},
     weekly_decline_rate : {DefaultWeeklyDeclineRate}]

\* cost_per_km: left out, free of charge, or above fuel_cost_per_km
CostPerKmSamples == {None, <<0>>, <<120>>}

\* The requests of test_api.py.  test_optimize_simple: three farms with 150,
\* 200 and 100 pigs; the farms are placed at every distance of 1..3 steps,
\* which covers every order in which the fallback can meet them.
TestOptimizeSimple ==
    [farms : {<<[location |-> l[1], available_pigs |-> 150, avg_weight_kg |-> None],
                [location |-> l[2], available_pigs |-> 200, avg_weight_kg |-> None],
                [location |-> l[3], available_pigs |-> 100, avg_weight_kg |-> None]>> :
              l \in [1..3 -> 1..3]},
     truck_capacity : {250},
     daily_capacity : {500},
     num_days : {5},
     planning_days_per_week : {DefaultPlanningDaysPerWeek},
     avg_pig_weight_kg : {110000, 122000},
     price_per_kg : {220},
     weekly_weight_gain_kg : {DefaultWeeklyWeightGainKg},
     truck_cost_per_week : {DefaultTruckCostPerWeek},
     fuel_cost_per_km : {DefaultFuelCostPerKm},
     cost_per_km : CostPerKmSamples,
     weekly_decline_rate : {DefaultWeeklyDeclineRate}]

\* test_edge_cases 4.1: no farms, the other fields at their defaults
TestNoFarms ==
    [farms : {<<>>},
     truck_capacity : {181},
     daily_capacity : {500},
     num_days : {10},
     planning_days_per_week : {DefaultPlanningDaysPerWeek},
     avg_pig_weight_kg : {DefaultAvgPigWeightKg},
     price_per_kg : {DefaultPricePerKg},
     weekly_weight_gain_kg : {DefaultWeeklyWeightGainKg},
     truck_cost_per_week : {DefaultTruckCostPerWeek},
     fuel_cost_per_km : {DefaultFuelCostPerKm},
     cost_per_km : {None},
     weekly_decline_rate : {DefaultWeeklyDeclineRate}]

\* test_edge_cases 4.2: one farm of 500 pigs, 0.1 degree south of the
\* slaughterhouse, trucks of 50 and a daily capacity of 100
TestSmallCapacity ==
    [farms : {<<[location |-> 10, available_pigs |-> 500, avg_weight_kg |-> None]>>},
     truck_capacity : {50},
     daily_capacity : {100},
     num_days : {3},
     planning_days_per_week : {DefaultPlanningDaysPerWeek},
     avg_pig_weight_kg : {DefaultAvgPigWeightKg},
     price_per_kg : {DefaultPricePerKg},
     weekly_weight_gain_kg : {DefaultWeeklyWeightGainKg},
     truck_cost_per_week : {DefaultTruckCostPerWeek},
     fuel_cost_per_km : {DefaultFuelCostPerKm},
     cost_per_km : {None},
     weekly_decline_rate : {DefaultWeeklyDeclineRate}]

\* test_edge_cases 4.3: one farm (200 pigs, trucks of 250, daily capacity
\* 300, 5 days), and requests of one farm with other sizes and horizons,
\* each with the cost_per_km of CostPerKmSamples
SingleFarm(heads, truck_capacities, daily_capacities) ==
    [farms : {<<[location |-> 10, available_pigs |-> h, avg_weight_kg |-> None]>> : h \in heads},
     truck_capacity : truck_capacities,
     daily_capacity : daily_capacities,
     num_days : {3, 5},
     planning_days_per_week : {2, DefaultPlanningDaysPerWeek},
     avg_pig_weight_kg : {DefaultAvgPigWeightKg},
     price_per_kg : {DefaultPricePerKg},
     weekly_weight_gain_kg : {0, 2000},
     truck_cost_per_week : {DefaultTruckCostPerWeek},
     fuel_cost_per_km : {DefaultFuelCostPerKm},
     cost_per_km : CostPerKmSamples,
     weekly_decline_rate : {DefaultWeeklyDeclineRate}]

TestSingleFarm == SingleFarm({200}, {250}, {300}) \cup SingleFarm(0..3, 1..3, 0..3)

\* A request in which a farm is collected on day 6: two farms of 3 pigs, one
\* pig per truck and per day, weeks of 5 days and 2.0 kg gained per week
WeightGrowthExample ==
    [farms : {<<[location |-> 1, available_pigs |-> 3, avg_weight_kg |-> None],
                [location |-> 2, available_pigs |-> 3, avg_weight_kg |-> <<104996>>]>>},
     truck_capacity : {1},
     daily_capacity : {1},
     num_days : {7},
     planning_days_per_week : {DefaultPlanningDaysPerWeek},
     avg_pig_weight_kg : {DefaultAvgPigWeightKg},
     price_per_kg : {DefaultPricePerKg},
     weekly_weight_gain_kg : {2000},
     truck_cost_per_week : {DefaultTruckCostPerWeek},
     fuel_cost_per_km : {DefaultFuelCostPerKm},
     cost_per_km : {None},
     weekly_decline_rate : {DefaultWeeklyDeclineRate}]

WeightRequests == UNION {WeightRequestsOf(n) : n \in 0..MaxWeighedFarms} \cup WeightGrowthExample

ScenarioRequests == TestOptimizeSimple \cup TestNoFarms \cup TestSmallCapacity \cup TestSingleFarm

\* The requests of ServiceSpec, which are served beside other calls
ServiceRequests == UNION {RequestsOf(n) : n \in 0..MaxServiceFarms}

\* --------------------------------------------------- the routing solver
\* Node 0 is the slaughterhouse, node k >= 1 is active_farms[k].
NodeLocation(active_farms, node) ==
    IF node = 0 THEN SlaughterhouseLocation ELSE active_farms[node].location

\* create_distance_matrix, in metres
distance_matrix(active_farms, i, j) ==
    IF i = j THEN 0
    ELSE haversine_distance(NodeLocation(active_farms, i), NodeLocation(active_farms, j))

\* Variant of min_vehicles that gives every farm a vehicle of its own.
min_vehicles_PerFarm(active_farms, truck_capacity, daily_capacity) == Len(active_farms)

\* Variant of min_vehicles that sizes the fleet for all pigs of the farms.
min_vehicles_NoDailyCap(active_farms, truck_capacity, daily_capacity) ==
    Max(1, CeilDiv(SumSeq([k \in 1..Len(active_farms) |-> active_farms[k].available_pigs]),
                   truck_capacity))

\* min_vehicles = max(1, ceil(min(total_pigs, daily_capacity) / truck_capacity))
min_vehicles(active_farms, truck_capacity, daily_capacity) ==
    LET total_pigs == SumSeq([k \in 1..Len(active_farms) |-> active_farms[k].available_pigs])
        total_pigs_to_collect == Min(total_pigs, daily_capacity)
    IN  Max(1, CeilDiv(total_pigs_to_collect, truck_capacity))

PathLoad(active_farms, path) ==
    SumSeq([k \in 1..Len(path) |-> active_farms[path[k]].available_pigs])

InsertAt(path, j, node) ==
    SubSeq(path, 1, j - 1) \o <<node>> \o SubSeq(path, j, Len(path))

\* The assignments the solver may return for nodes 1..n: one path per vehicle,
\* every node on exactly one path (no node is optional), and the demand of
\* every path within the vehicle capacity (the 'Capacity' dimension, slack 0).
RECURSIVE FeasibleSolutions(_, _, _, _)
FeasibleSolutions(active_farms, n, num_vehicles, truck_capacity) ==
    IF n = 0 THEN {[v \in 1..num_vehicles |-> <<>>]}
    ELSE UNION {
            { [s EXCEPT ![v] = InsertAt(s[v], j, n)] : j \in 1..(Len(s[v]) + 1) }
            : <<s, v>> \in
                { sv \in FeasibleSolutions(active_farms, n - 1, num_vehicles, truck_capacity)
                          \X (1..num_vehicles) :
                    PathLoad(active_farms, sv[1][sv[2]]) + active_farms[n].available_pigs
                        <= truck_capacity } }

\* routing.SolveWithParameters: a solution, or none (infeasible, or the search
\* found nothing within its time limit)
NoSolution == <<>>
SolveWithParameters(active_farms, num_vehicles, truck_capacity) ==
    {NoSolution} \cup FeasibleSolutions(active_farms, Len(active_farms), num_vehicles, truck_capacity)

\* ------------------------------------------- extraction of a solver route
\* Variants of SolverPigsToCollect with one bound of the min() left out.
SolverPigsToCollect_NoDailyCap(available_pigs, truck_capacity, route_load, remaining_daily_capacity) ==
    Min(available_pigs, truck_capacity - route_load)

SolverPigsToCollect_NoAvailable(available_pigs, truck_capacity, route_load, remaining_daily_capacity) ==
    Min(truck_capacity - route_load, remaining_daily_capacity)

\* pigs_to_collect of a stop of a solver route (lines 388-392)
SolverPigsToCollect(available_pigs, truck_capacity, route_load, remaining_daily_capacity) ==
    Min(available_pigs, Min(truck_capacity - route_load, remaining_daily_capacity))

\* One iteration of "while not routing.IsEnd(index)" for a farm node.
VisitNode(active_farms, node, truck_capacity, daily_capacity, max_stops_per_route, w) ==
    LET remaining_daily_capacity == Max(0, daily_capacity - w.total_collected)
        farm == active_farms[node]
        route_distance == w.route_distance
                            + (IF w.previous_node # node
                               THEN distance_matrix(active_farms, w.previous_node, node)
                               ELSE 0)
        pigs_to_collect == SolverPigsToCollect(farm.available_pigs, truck_capacity,
                                               w.route_load, remaining_daily_capacity)
        emit == w.stops_count < max_stops_per_route /\ pigs_to_collect > 0
    IN  [route_stops     |-> IF emit
                             THEN Append(w.route_stops, [id |-> farm.id, pigs |-> pigs_to_collect])
                             ELSE w.route_stops,
         route_load      |-> IF emit THEN w.route_load + pigs_to_collect ELSE w.route_load,
         route_distance  |-> route_distance,
         previous_node   |-> node,
         stops_count     |-> IF emit THEN w.stops_count + 1 ELSE w.stops_count,
         total_collected |-> IF emit THEN w.total_collected + pigs_to_collect
                             ELSE w.total_collected]

RECURSIVE WalkRoute(_, _, _, _, _, _, _)
WalkRoute(active_farms, path, k, truck_capacity, daily_capacity, max_stops_per_route, w) ==
    IF k > Len(path) THEN w
    ELSE WalkRoute(active_farms, path, k + 1, truck_capacity, daily_capacity,
                   max_stops_per_route,
                   VisitNode(active_farms, path[k], truck_capacity, daily_capacity,
                             max_stops_per_route, w))

\* Variant of ReturnDistance that leaves out the way back.
ReturnDistance_NoReturn(active_farms, w) == w.route_distance

\* route_distance after the return to the slaughterhouse (line 407), in metres
ReturnDistance(active_farms, w) ==
    w.route_distance + distance_matrix(active_farms, w.previous_node, 0)

\* The body of "for vehicle_id in range(num_vehicles)": x carries truck_routes
\* and total_collected from one vehicle to the next.
ExtractVehicle(active_farms, solution, vehicle_id, truck_capacity, daily_capacity, max_stops_per_route, x) ==
    LET w == WalkRoute(active_farms, solution[vehicle_id + 1], 1, truck_capacity,
                       daily_capacity, max_stops_per_route,
                       [route_stops |-> <<>>, route_load |-> 0, route_distance |-> 0,
                        previous_node |-> 0, stops_count |-> 0,
                        total_collected |-> x.total_collected])
        route_distance == ReturnDistance(active_farms, w)
    IN  [truck_routes    |-> IF w.route_stops # <<>>
                             THEN Append(x.truck_routes,
                                         [id |-> vehicle_id + 1,
                                          route |-> w.route_stops,
                                          distance_km |-> round2(route_distance)])
                             ELSE x.truck_routes,
         total_collected |-> w.total_collected]

RECURSIVE ExtractRoutes(_, _, _, _, _, _, _)
ExtractRoutes(active_farms, solution, vehicle_id, truck_capacity, daily_capacity, max_stops_per_route, x) ==
    IF vehicle_id >= Len(solution) THEN x.truck_routes
    ELSE ExtractRoutes(active_farms, solution, vehicle_id + 1, truck_capacity,
                       daily_capacity, max_stops_per_route,
                       ExtractVehicle(active_farms, solution, vehicle_id, truck_capacity,
                                      daily_capacity, max_stops_per_route, x))

\* --------------------------------------------------- the greedy fallback
\* sorted(farms, key=distance to the slaughterhouse): a stable sort, so
\* farms at the same distance keep the order of the list.
SortKey(farms, k) == haversine_distance(farms[k].location, SlaughterhouseLocation)

Before(farms, i, j) ==
    \/ SortKey(farms, i) < SortKey(farms, j)
    \/ SortKey(farms, i) = SortKey(farms, j) /\ i < j

sorted_farms(farms) ==
    LET rank(k) == 1 + Cardinality({i \in 1..Len(farms) : Before(farms, i, k)})
    IN  [r \in 1..Len(farms) |-> farms[CHOOSE k \in 1..Len(farms) : rank(k) = r]]

\* next(f for f in farms if f.id == id).location
LocationOf(farms, id) ==
    farms[CHOOSE k \in 1..Len(farms) :
            /\ farms[k].id = id
            /\ \A i \in 1..(k - 1) : farms[i].id # id].location

\* Variant of GreedyPigsToCollect that ignores what the farm has left.
GreedyPigsToCollect_NoAvailable(pigs_available, truck_capacity, current_load, daily_capacity, total_collected) ==
    Min(truck_capacity - current_load, daily_capacity - total_collected)

\* Variant of GreedyPigsToCollect that ignores the room left in the truck.
GreedyPigsToCollect_NoTruckRoom(pigs_available, truck_capacity, current_load, daily_capacity, total_collected) ==
    Min(pigs_available, daily_capacity - total_collected)

\* pigs_to_collect of a stop of the fallback (lines 466-470)
GreedyPigsToCollect(pigs_available, truck_capacity, current_load, daily_capacity, total_collected) ==
    Min(pigs_available, Min(truck_capacity - current_load, daily_capacity - total_collected))

\* lines 472-496: append a stop for farm to the current route
GreedyAddStop(farms, farm, pigs_to_collect, g) ==
    LET from == IF g.current_route # <<>>
                THEN LocationOf(farms, Last(g.current_route).id)
                ELSE SlaughterhouseLocation
        dist == haversine_distance(from, farm.location)
    IN  [g EXCEPT !.current_route = Append(@, [id |-> farm.id, pigs |-> pigs_to_collect]),
                  !.current_route_distance = @ + dist,
                  !.current_load = @ + pigs_to_collect,
                  !.total_collected = @ + pigs_to_collect]

\* Variant of GreedyCloseTruck that gives every truck the same id.
GreedyCloseTruck_SameId(farms, g) ==
    [g EXCEPT !.trucks = Append(@, [id |-> 1,
                                    route |-> g.current_route,
                                    distance_km |-> round2(g.current_route_distance
                                        + haversine_distance(
                                            LocationOf(farms, Last(g.current_route).id),
                                            SlaughterhouseLocation))])]

\* lines 500-516 and 528-542: close the current route into a truck
GreedyCloseTruck(farms, g) ==
    LET dist_return == haversine_distance(LocationOf(farms, Last(g.current_route).id),
                                          SlaughterhouseLocation)
    IN  [g EXCEPT !.trucks = Append(@, [id |-> g.current_truck_id,
                                        route |-> g.current_route,
                                        distance_km |-> round2(g.current_route_distance
                                                               + dist_return)]),
                  !.current_truck_id = @ + 1]

\* Variant of GreedyNewTruck that leaves the load of the closed truck in
\* current_load.
GreedyNewTruck_KeepsLoad(farms, truck_capacity, daily_capacity, g) ==
    IF g.current_load >= truck_capacity \/ g.total_collected >= daily_capacity
    THEN [(IF g.current_route # <<>> THEN GreedyCloseTruck(farms, g) ELSE g)
            EXCEPT !.current_route = <<>>,
                   !.current_route_distance = 0]
    ELSE g

\* lines 499-519: start a new truck when this one is full or the day is
GreedyNewTruck(farms, truck_capacity, daily_capacity, g) ==
    IF g.current_load >= truck_capacity \/ g.total_collected >= daily_capacity
    THEN [(IF g.current_route # <<>> THEN GreedyCloseTruck(farms, g) ELSE g)
            EXCEPT !.current_route = <<>>,
                   !.current_route_distance = 0,
                   !.current_load = 0]
    ELSE g

\* The loops of lines 462-525: farm k of the sorted list with pigs_available
\* left; one unfolding is one evaluation of the while condition.
RECURSIVE GreedyLoop(_, _, _, _, _, _, _)
GreedyLoop(farms, sorted, k, pigs_available, truck_capacity, daily_capacity, g) ==
    IF k > Len(sorted) THEN g
    ELSE IF pigs_available > 0 /\ g.total_collected < daily_capacity
    THEN LET pigs_to_collect == GreedyPigsToCollect(pigs_available, truck_capacity,
                                    g.current_load, daily_capacity, g.total_collected)
             g1 == IF pigs_to_collect > 0
                   THEN GreedyAddStop(farms, sorted[k], pigs_to_collect, g)
                   ELSE g
             left == IF pigs_to_collect > 0 THEN pigs_available - pigs_to_collect
                     ELSE pigs_available
             g2 == GreedyNewTruck(farms, truck_capacity, daily_capacity, g1)
         IN  IF g2.total_collected >= daily_capacity THEN g2
             ELSE GreedyLoop(farms, sorted, k, left, truck_capacity, daily_capacity, g2)
    ELSE IF g.total_collected >= daily_capacity THEN g
    ELSE GreedyLoop(farms, sorted, k + 1,
                    IF k + 1 <= Len(sorted) THEN sorted[k + 1].available_pigs ELSE 0,
                    truck_capacity, daily_capacity, g)

\* Variant of greedy_route_assignment that forgets the route still open
\* when the farms are exhausted.
greedy_route_assignment_NoLastTruck(farms, truck_capacity, daily_capacity) ==
    GreedyLoop(farms, sorted_farms(farms), 1,
               IF farms # <<>> THEN sorted_farms(farms)[1].available_pigs ELSE 0,
               truck_capacity, daily_capacity,
               [trucks |-> <<>>, current_truck_id |-> 1, current_route |-> <<>>,
                current_route_distance |-> 0, current_load |-> 0,
                total_collected |-> 0]).trucks

\* lines 422-544
greedy_route_assignment(farms, truck_capacity, daily_capacity) ==
    LET sorted == sorted_farms(farms)
        g0 == [trucks |-> <<>>, current_truck_id |-> 1, current_route |-> <<>>,
               current_route_distance |-> 0, current_load |-> 0, total_collected |-> 0]
        g == GreedyLoop(farms, sorted, 1,
                        IF sorted # <<>> THEN sorted[1].available_pigs ELSE 0,
                        truck_capacity, daily_capacity, g0)
    IN  IF g.current_route # <<>> THEN GreedyCloseTruck(farms, g).trucks ELSE g.trucks

\* ------------------------------------------------ optimize_routes_for_day
\* active_farms = [f for f in farms if f.available_pigs > 0]
ActiveFarms(farms) == SelectSeq(farms, LAMBDA f : f.available_pigs > 0)

\* Variant of optimize_routes_for_day that gives up when there is no solution.
optimize_routes_for_day_NoFallback(farms, truck_capacity, daily_capacity, max_stops_per_route, solution) ==
    LET active_farms == ActiveFarms(farms)
    IN  IF farms = <<>> \/ active_farms = <<>> \/ solution = NoSolution THEN <<>>
        ELSE ExtractRoutes(active_farms, solution, 0, truck_capacity, daily_capacity,
                           max_stops_per_route,
                           [truck_routes |-> <<>>, total_collected |-> 0])

\* The routes of one day, given what SolveWithParameters returned.
optimize_routes_for_day(farms, truck_capacity, daily_capacity, max_stops_per_route, solution) ==
    LET active_farms == ActiveFarms(farms)
    IN  IF farms = <<>> \/ active_farms = <<>> THEN <<>>
        ELSE IF solution = NoSolution
        THEN greedy_route_assignment(active_farms, truck_capacity, daily_capacity)
        ELSE ExtractRoutes(active_farms, solution, 0, truck_capacity, daily_capacity,
                           max_stops_per_route,
                           [truck_routes |-> <<>>, total_collected |-> 0])

\* ------------------------------------------------- compute_weight_penalty
\* A mean weight total_kg / total_pigs, kept as an exact fraction of grams.
Ratio(num, den) == [num |-> num, den |-> den]
Below(w, grams) == w.num < grams * w.den
Above(w, grams) == w.num > grams * w.den

\* Variant of compute_weight_penalty whose ideal range excludes its ends.
compute_weight_penalty_OpenRange(weight_kg) ==
    IF ~Above(weight_kg, 0) THEN 0
    ELSE IF Above(weight_kg, 105000) /\ Below(weight_kg, 115000) THEN 0
    ELSE IF Below(weight_kg, 100000) \/ Above(weight_kg, 120000) THEN 20
    ELSE 15

\* lines 205-234, with the default ideal_min, ideal_max, moderate_penalty
\* and extreme_penalty; the result is in hundredths
compute_weight_penalty(weight_kg) ==
    LET ideal_min == 105000
        ideal_max == 115000
        moderate_penalty == 15
        extreme_penalty == 20
    IN  IF ~Above(weight_kg, 0) THEN 0
        ELSE IF ~Below(weight_kg, ideal_min) /\ ~Above(weight_kg, ideal_max) THEN 0
        ELSE IF Below(weight_kg, 100000) \/ Above(weight_kg, 120000)
             THEN extreme_penalty
        ELSE moderate_penalty

\* --------------------------------------------------------- optimize_routes
FarmIds == 1..Len(req.farms)

\* line 626: the date of a day, in days after start_date
current_date_Start(offset) == 0
current_date(offset) == offset

\* line 604: the weight a farm starts with
initial_weight(farm, avg_pig_weight_kg) ==
    IF farm.avg_weight_kg # None THEN farm.avg_weight_kg[1] ELSE avg_pig_weight_kg

\* Variant of daily_weight_gain_kg that adds the weekly gain every day.
daily_weight_gain_kg_Weekly(weekly_weight_gain_kg, planning_days_per_week) ==
    weekly_weight_gain_kg

\* lines 618-620
daily_weight_gain_kg(weekly_weight_gain_kg, planning_days_per_week) ==
    IF weekly_weight_gain_kg > 0 /\ planning_days_per_week > 0
    THEN weekly_weight_gain_kg \div planning_days_per_week
    ELSE 0

\* Variant of GrowWeights that grows the weight of every farm.
GrowWeights_All(weights, remaining, gain) ==
    [id \in DOMAIN weights |-> weights[id] + gain]

\* lines 671-674 and 761-764: the weights after a day
GrowWeights(weights, remaining, gain) ==
    IF gain > 0
    THEN [id \in DOMAIN weights |-> IF remaining[id] > 0 THEN weights[id] + gain
                                     ELSE weights[id]]
    ELSE weights

\* Variant of StopKg that weighs every stop with the weight of the first farm.
StopKg_FirstFarm(stop, farm_weight_snapshot) == stop.pigs * farm_weight_snapshot[1]

\* lines 712-713: the kg delivered by one stop
StopKg(stop, farm_weight_snapshot) == stop.pigs * farm_weight_snapshot[stop.id]

\* lines 694-713: total_pigs and total_kg of a day's stops
TotalPigs(stops) == SumSeq([k \in 1..Len(stops) |-> stops[k].pigs])
TotalKg(stops, farm_weight_snapshot) ==
    SumSeq([k \in 1..Len(stops) |-> StopKg(stops[k], farm_weight_snapshot)])

\* lines 731-734
avg_delivered_weight_kg(total_kg, total_pigs, avg_pig_weight_kg) ==
    IF total_pigs > 0 THEN Ratio(total_kg, total_pigs) ELSE Ratio(avg_pig_weight_kg, 1)

\* An amount of money total_kg * price_per_kg * factor / 100 is kept exactly,
\* as the part of the whole kilograms (in 1/100 cent) and the part of the
\* remaining grams (in 1/100000 cent).
Amount(total_kg, price_per_kg, factor) ==
    [whole |-> (total_kg \div 1000) * (price_per_kg * factor),
     rest  |-> (total_kg % 1000) * (price_per_kg * factor)]

\* Variant of total_revenue_euros that ignores the penalty.
total_revenue_euros_Unpenalised(total_kg, price_per_kg, penalty_factor) ==
    Amount(total_kg, price_per_kg, 100)

\* line 737
total_revenue_euros(total_kg, price_per_kg, penalty_factor) ==
    Amount(total_kg, price_per_kg, 100 - penalty_factor)

\* round(euros, 2) of an amount, in cents
round_euros(amount) == (amount.whole + (amount.rest + 50000) \div 1000) \div 100

\* ------------------------------------------------------------ the economics
\* A fraction n / d kept exactly: whole + num / den
Exact(n, d) == [whole |-> n \div d, num |-> n % d, den |-> d]

\* the amount of total_revenue_euros as an exact fraction of cents
AmountCents(amount) ==
    LET rest == (amount.whole % 100) * 1000 + amount.rest
    IN  [whole |-> amount.whole \div 100 + rest \div 100000,
         num |-> rest % 100000,
         den |-> 100000]

\* round() of the fraction num / den to an integer: the nearest one, and
\* either neighbour where the fraction lies half way
RoundHalf(num, den) ==
    LET up == (2 * num + den) \div (2 * den)
    IN  IF (2 * num + den) % (2 * den) = 0 THEN {up - 1, up} ELSE {up}

\* round(euros, 2) of an exact fraction of cents
round_cents(x) == {x.whole + r : r \in RoundHalf(x.num, x.den)}

\* line 623
effective_cost_per_km(request) ==
    IF request.cost_per_km # None THEN request.cost_per_km[1]
    ELSE request.fuel_cost_per_km

\* lines 704-708: the load of a truck
truck_pigs(truck) == SumSeq([k \in 1..Len(truck.route) |-> truck.route[k].pigs])

\* lines 725-727: distance_km * effective_cost_per_km * truck_pigs, which is
\* the trip cost of a truck in 1 / (100 * truck_capacity) of a cent
trip_cost(truck, truck_capacity, cost_per_km) ==
    IF truck_capacity > 0 /\ truck.distance_km > 0 /\ truck_pigs(truck) > 0
    THEN truck.distance_km * cost_per_km * truck_pigs(truck)
    ELSE 0

\* lines 697, 723-728
total_trip_cost_euros(truck_routes, truck_capacity, cost_per_km) ==
    Exact(SumSeq([t \in 1..Len(truck_routes) |->
                    trip_cost(truck_routes[t], truck_capacity, cost_per_km)]),
          100 * truck_capacity)

\* lines 696, 701: the distances of the day's trucks, in hundredths of a km
total_distance_km(truck_routes) ==
    SumSeq([t \in 1..Len(truck_routes) |-> truck_routes[t].distance_km])

\* Variant of truck_cost_euros that spreads a week over its planning days.
truck_cost_euros_PerPlanningDay(num_trucks_today, truck_cost_per_week) ==
    Exact(num_trucks_today * truck_cost_per_week, req.planning_days_per_week)

\* lines 741-742
truck_cost_euros(num_trucks_today, truck_cost_per_week) ==
    Exact(num_trucks_today * truck_cost_per_week, 7)

\* line 745, over the common denominator of the three fractions
net_profit_euros(revenue, trip, truck, truck_capacity) ==
    LET den == 100000 * 7 * truck_capacity
    IN  [whole |-> revenue.whole - trip.whole - truck.whole,
         num |-> revenue.num * (den \div revenue.den) - trip.num * (den \div trip.den)
                    - truck.num * (den \div truck.den),
         den |-> den]

\* ------------------------------------------------------------- the summary
\* n * 10^digits / d: the floor q of the quotient and the remainder r
RECURSIVE Scaled(_, _, _)
Scaled(n, d, digits) ==
    IF digits = 0 THEN [q |-> n \div d, r |-> n % d]
    ELSE LET p == Scaled(n, d, digits - 1)
         IN  [q |-> p.q * 10 + (p.r * 10) \div d, r |-> (p.r * 10) % d]

\* round(n / d, digits) in units of 10^-digits, for d > 0
round_ratio(n, d, digits) ==
    LET s == Scaled(n, d, digits)
    IN  IF 2 * s.r > d THEN {s.q + 1}
        ELSE IF 2 * s.r < d THEN {s.q}
        ELSE {s.q, s.q + 1}

\* lines 769-770
total_revenue(days) == SumSeq([d \in 1..Len(days) |-> days[d].totalEuros])
total_fuel_cost(days) == SumSeq([d \in 1..Len(days) |-> days[d].fuelCostEuros])

\* line 771
total_truck_cost(days) == SumSeq([d \in 1..Len(days) |-> days[d].truckCostEuros])

\* Variant of total_net_profit that subtracts the total costs from the total revenue.
total_net_profit_OfTotals(days) ==
    total_revenue(days) - total_fuel_cost(days) - total_truck_cost(days)

\* line 772
total_net_profit(days) == SumSeq([d \in 1..Len(days) |-> days[d].netProfitEuros])

\* lines 773-776
total_pigs_period(days) ==
    SumSeq([d \in 1..Len(days) |->
              SumSeq([t \in 1..Len(days[d].trucks) |-> truck_pigs(days[d].trucks[t])])])

\* line 777
total_distance(days) == SumSeq([d \in 1..Len(days) |-> days[d].totalDistanceKm])

\* line 778
max_trucks_per_day(trucks_used) == IF trucks_used # <<>> THEN MaxSeq(trucks_used) ELSE 0

\* line 779 and the rounding of line 792, in hundredths of a truck
avg_trucks_per_day(trucks_used) ==
    IF trucks_used # <<>> THEN round_ratio(SumSeq(trucks_used), Len(trucks_used), 2) ELSE {0}

\* lines 781-795: the summaries the days can get; a percentage is in
\* hundredths of a percent
summary(days, trucks_used, num_days) ==
    [total_days : {num_days},
     total_revenue_euros : {total_revenue(days)},
     total_fuel_cost_euros : {total_fuel_cost(days)},
     total_truck_cost_euros : {total_truck_cost(days)},
     total_costs_euros : {total_fuel_cost(days) + total_truck_cost(days)},
     total_net_profit_euros : {total_net_profit(days)},
     profit_margin_percent :
        IF total_revenue(days) > 0
        THEN round_ratio(total_net_profit(days), total_revenue(days), 4) ELSE {0},
     total_pigs_collected : {total_pigs_period(days)},
     total_distance_km : {total_distance(days)},
     max_trucks_per_day : {max_trucks_per_day(trucks_used)},
     avg_trucks_per_day : avg_trucks_per_day(trucks_used),
     cost_per_pig_euros :
        IF total_pigs_period(days) > 0
        THEN round_ratio(total_fuel_cost(days) + total_truck_cost(days),
                         total_pigs_period(days), 0)
        ELSE {0},
     revenue_per_pig_euros :
        IF total_pigs_period(days) > 0
        THEN round_ratio(total_revenue(days), total_pigs_period(days), 0) ELSE {0}]

\* line 766: "opt-" and the whole seconds of the wall clock
optimization_id(clock) == clock \div TicksPerSecond

\* Variant of current_week in which every day is a week of its own.
current_week_Daily(day, planning_days_per_week) == day

\* current_week = day_offset // planning_days_per_week
current_week(day, planning_days_per_week) ==
    IF planning_days_per_week > 0 THEN day \div planning_days_per_week ELSE 0

\* Variant of Admissible that does not consult the weekly ledger.
Admissible_NoLedger(remaining, weeks_visited, week) == remaining > 0

\* Variant of Admissible that offers a farm until its first visit only.
Admissible_UntilVisited(remaining, weeks_visited, week) ==
    remaining > 0 /\ weeks_visited = {}

\* lines 641-644: a farm is offered to the day's routing
Admissible(remaining, weeks_visited, week) ==
    remaining > 0 /\ week \notin weeks_visited

\* lines 639-654: the farms offered today, in the order of farm_state
day_farms(farms, remaining, weeks_visited, week) ==
    LET ids == SelectSeq([k \in 1..Len(farms) |-> k],
                         LAMBDA id : Admissible(remaining[id], weeks_visited[id], week))
    IN  [k \in 1..Len(ids) |->
            [id |-> ids[k],
             location |-> farms[ids[k]].location,
             available_pigs |-> remaining[ids[k]]]]

\* Variant of UpdateRemaining that applies the request's weekly_decline_rate
\* to what is left at the farm.
UpdateRemaining_Declined(remaining, pigs) ==
    (Max(0, remaining - pigs) * (100 - req.weekly_decline_rate)) \div 100

\* Variant of UpdateRemaining with the sign of the update reversed.
UpdateRemaining_Added(remaining, pigs) == Max(0, remaining + pigs)

\* Variant of UpdateRemaining that leaves the inventory as it was.
UpdateRemaining_Kept(remaining, pigs) == remaining

\* line 717: the inventory left after a stop
UpdateRemaining(remaining, pigs) == Max(0, remaining - pigs)

\* Variant of ApplyStop that enters the week in the ledger of every farm.
ApplyStop_WholeLedger(stop, week, st) ==
    [remaining_pigs     |-> [st.remaining_pigs EXCEPT
                                ![stop.id] = UpdateRemaining(@, stop.pigs)],
     farm_weeks_visited |-> [id \in DOMAIN st.farm_weeks_visited |->
                                st.farm_weeks_visited[id] \cup {week}]]

\* lines 705-721: the inventory and the weekly ledger after one stop
ApplyStop(stop, week, st) ==
    [remaining_pigs     |-> [st.remaining_pigs EXCEPT
                                ![stop.id] = UpdateRemaining(@, stop.pigs)],
     farm_weeks_visited |-> [st.farm_weeks_visited EXCEPT ![stop.id] = @ \cup {week}]]

RECURSIVE ApplyStops(_, _, _, _)
ApplyStops(stops, k, week, st) ==
    IF k > Len(stops) THEN st
    ELSE ApplyStops(stops, k + 1, week, ApplyStop(stops[k], week, st))

\* all stops of a day's trucks, truck by truck
StopsOf(trucks) == Concat([t \in 1..Len(trucks) |-> trucks[t].route])

\* The except clauses of lines 803-806: the status the caller receives for an
\* exception raised inside the try block.  HTTPException derives from
\* Exception and not from ValueError.
IsInstance(exc, class) ==
    \/ exc.class = class
    \/ class = "Exception"

ExceptStatus(exc) ==
    IF IsInstance(exc, "ValueError") THEN 400
    ELSE IF IsInstance(exc, "Exception") THEN 500
    ELSE exc.status_code

\* the handler is entered
Entered ==
    /\ pc = "start"
    /\ day_offset = 0
    /\ remaining_pigs = <<>>
    /\ avg_weight_kg = <<>>
    /\ farm_weeks_visited = <<>>
    /\ days_data = <<>>
    /\ solver_log = <<>>
    /\ status = 0
    /\ trucks_used_per_day = <<>>
    /\ response = None
    /\ now = 0
    /\ returned_ids = {}
    /\ deadline_expired_on = None
    /\ greedy = None

Init ==
    /\ \E n \in 0..MaxFarms : req \in RequestsOf(n)
    /\ Entered

WeightInit ==
    /\ req \in WeightRequests
    /\ Entered

ScenarioInit ==
    /\ req \in ScenarioRequests
    /\ Entered

ServiceInit ==
    /\ req \in ServiceRequests
    /\ Entered

\* lines 584-586, 803-806: an empty farms list raises HTTPException(400)
\* inside the try block
RejectEmptyFarms ==
    /\ pc = "start"
    /\ req.farms = <<>>
    /\ status' = ExceptStatus([class |-> "HTTPException", status_code |-> 400])
    /\ pc' = "done"
    /\ UNCHANGED <<req, day_offset, remaining_pigs, avg_weight_kg, farm_weeks_visited,
                   days_data, solver_log, trucks_used_per_day, response, surroundings>>

\* lines 594-623: the planning state before the first day
BeginPlanning ==
    /\ pc = "start"
    /\ req.farms # <<>>
    /\ remaining_pigs' = [id \in FarmIds |-> Max(0, req.farms[id].available_pigs)]
    /\ avg_weight_kg' = [id \in FarmIds |->
                            Max(0, initial_weight(req.farms[id], req.avg_pig_weight_kg))]
    /\ farm_weeks_visited' = [id \in FarmIds |-> {}]
    /\ pc' = "plan"
    /\ UNCHANGED <<req, day_offset, days_data, solver_log, status,
                   trucks_used_per_day, response, surroundings>>

\* lines 657-675: no farm can be served today
PlanBlankDay ==
    /\ pc = "plan"
    /\ day_offset < req.num_days
    /\ LET week == current_week(day_offset, req.planning_days_per_week)
       IN  /\ day_farms(req.farms, remaining_pigs, farm_weeks_visited, week) = <<>>
           /\ days_data' = Append(days_data,
                                  [timedatestamp |-> current_date(day_offset),
                                   totalKg |-> 0, totalEuros |-> 0, trucks |-> <<>>,
                                   totalDistanceKm |-> 0, fuelCostEuros |-> 0,
                                   truckCostEuros |-> 0, netProfitEuros |-> 0])
           /\ solver_log' = Append(solver_log,
                                   [week |-> week, day_farms |-> <<>>,
                                    called |-> FALSE, fleets |-> <<>>,
                                    solution |-> NoSolution,
                                    farm_weight_snapshot |-> avg_weight_kg,
                                    avg_delivered_weight_kg |-> Ratio(0, 1),
                                    penalty_factor |-> 0])
    /\ avg_weight_kg' = GrowWeights(avg_weight_kg, remaining_pigs,
                                    daily_weight_gain_kg(req.weekly_weight_gain_kg,
                                                         req.planning_days_per_week))
    /\ trucks_used_per_day' = Append(trucks_used_per_day, 0)
    /\ day_offset' = day_offset + 1
    /\ UNCHANGED <<req, pc, remaining_pigs, farm_weeks_visited, status, response,
                   surroundings>>

\* lines 677-764: one planned day, for the outcome `solution` of the solver
PlanDayWith(solution) ==
    \E week \in {current_week(day_offset, req.planning_days_per_week)} :
    \E farms \in {day_farms(req.farms, remaining_pigs, farm_weeks_visited, week)} :
    \E truck_routes \in {optimize_routes_for_day(farms, req.truck_capacity,
                              req.daily_capacity, MaxStopsPerRoute, solution)} :
    \E st \in {ApplyStops(StopsOf(truck_routes), 1, week,
                           [remaining_pigs |-> remaining_pigs,
                            farm_weeks_visited |-> farm_weeks_visited])} :
    \E total_kg \in {TotalKg(StopsOf(truck_routes), avg_weight_kg)} :
    LET farm_weight_snapshot == avg_weight_kg
        total_pigs == TotalPigs(StopsOf(truck_routes))
        avg_delivered == avg_delivered_weight_kg(total_kg, total_pigs, req.avg_pig_weight_kg)
        penalty_factor == compute_weight_penalty(avg_delivered)
        revenue == total_revenue_euros(total_kg, req.price_per_kg, penalty_factor)
        trip == total_trip_cost_euros(truck_routes, req.truck_capacity,
                                      effective_cost_per_km(req))
        truck == truck_cost_euros(Len(truck_routes), req.truck_cost_per_week)
        net == net_profit_euros(AmountCents(revenue), trip, truck, req.truck_capacity)
    IN  /\ remaining_pigs' = st.remaining_pigs
        /\ farm_weeks_visited' = st.farm_weeks_visited
        /\ \E fuelCostEuros \in round_cents(trip), truckCostEuros \in round_cents(truck),
              netProfitEuros \in round_cents(net) :
                days_data' = Append(days_data,
                                    [timedatestamp |-> current_date(day_offset),
                                     totalKg |-> round2(total_kg),
                                     totalEuros |-> round_euros(revenue),
                                     trucks |-> truck_routes,
                                     totalDistanceKm |-> total_distance_km(truck_routes),
                                     fuelCostEuros |-> fuelCostEuros,
                                     truckCostEuros |-> truckCostEuros,
                                     netProfitEuros |-> netProfitEuros])
        /\ trucks_used_per_day' = Append(trucks_used_per_day, Len(truck_routes))
        /\ solver_log' = Append(solver_log,
                                [week |-> week, day_farms |-> farms,
                                 called |-> TRUE,
                                 fleets |-> <<min_vehicles(ActiveFarms(farms),
                                                           req.truck_capacity,
                                                           req.daily_capacity)>>,
                                 solution |-> solution,
                                 farm_weight_snapshot |-> farm_weight_snapshot,
                                 avg_delivered_weight_kg |-> avg_delivered,
                                 penalty_factor |-> penalty_factor])
        /\ avg_weight_kg' = GrowWeights(avg_weight_kg, st.remaining_pigs,
                                        daily_weight_gain_kg(req.weekly_weight_gain_kg,
                                                             req.planning_days_per_week))
        /\ day_offset' = day_offset + 1
        /\ UNCHANGED <<req, pc, status, response, surroundings>>

\* what the solver may return for today's farms
TodaysOutcomes ==
    LET week == current_week(day_offset, req.planning_days_per_week)
        farms == day_farms(req.farms, remaining_pigs, farm_weeks_visited, week)
    IN  IF farms = <<>> THEN {}
        ELSE SolveWithParameters(ActiveFarms(farms),
                                 min_vehicles(ActiveFarms(farms), req.truck_capacity,
                                              req.daily_capacity),
                                 req.truck_capacity)

PlanDaySolved ==
    /\ pc = "plan"
    /\ day_offset < req.num_days
    /\ \E solution \in TodaysOutcomes \ {NoSolution} : PlanDayWith(solution)

PlanDayFallback ==
    /\ pc = "plan"
    /\ day_offset < req.num_days
    /\ day_farms(req.farms, remaining_pigs, farm_weeks_visited,
                 current_week(day_offset, req.planning_days_per_week)) # <<>>
    /\ PlanDayWith(NoSolution)

\* lines 766-801: the response
Respond ==
    /\ pc = "plan"
    /\ day_offset = req.num_days
    /\ \E s \in summary(days_data, trucks_used_per_day, req.num_days) :
            response' = [id |-> optimization_id(now), days |-> days_data, summary |-> s]
    /\ status' = 200
    /\ pc' = "done"
    /\ UNCHANGED <<req, day_offset, remaining_pigs, avg_weight_kg, farm_weeks_visited,
                   days_data, solver_log, trucks_used_per_day, surroundings>>

Next ==
    \/ RejectEmptyFarms
    \/ BeginPlanning
    \/ PlanBlankDay
    \/ PlanDaySolved
    \/ PlanDayFallback
    \/ Respond

Spec == Init /\ [][Next]_vars

\* the same handler serving the requests that exercise the weights
WeightSpec == WeightInit /\ [][Next]_vars

\* the same handler serving the requests of test_api.py
ScenarioSpec == ScenarioInit /\ [][Next]_vars

\* ------------------------------------------------- the handler in service
handler == <<req, pc, day_offset, remaining_pigs, avg_weight_kg, farm_weeks_visited,
             days_data, solver_log, status, trucks_used_per_day, response>>

\* the farms today's routing is called with
TodaysFarms ==
    day_farms(req.farms, remaining_pigs, farm_weeks_visited,
              current_week(day_offset, req.planning_days_per_week))

\* the wall clock read by datetime.now() advances
Tick ==
    /\ now < MaxClock
    /\ now' = now + 1
    /\ UNCHANGED <<handler, returned_ids, deadline_expired_on, greedy>>

\* line 766 in another call of the endpoint, which returns its response now
OtherCallResponds ==
    /\ returned_ids' = returned_ids \cup {optimization_id(now)}
    /\ UNCHANGED <<handler, now, deadline_expired_on, greedy>>

\* The classes of exception a collaborator may raise: ValueError (math.sin
\* of an infinite latitude in haversine_distance), StopIteration (next()
\* without a match) and RuntimeError (the routing library).
CollaboratorExceptions == {"ValueError", "StopIteration", "RuntimeError"}

\* lines 678-685, 803-806: optimize_routes_for_day raises, the try block is
\* left and the days planned so far are dropped with it
CollaboratorRaises ==
    /\ pc = "plan"
    /\ day_offset < req.num_days
    /\ TodaysFarms # <<>>
    /\ \E class \in CollaboratorExceptions :
            status' = ExceptStatus([class |-> class, status_code |-> 0])
    /\ pc' = "done"
    /\ UNCHANGED <<req, day_offset, remaining_pigs, avg_weight_kg, farm_weeks_visited,
                   days_data, solver_log, trucks_used_per_day, response, surroundings>>

\* lines 335-349: a deadline of the caller runs out while the solver works
\* on today's routes.  The handler takes no deadline and the solver call
\* has its own time limit only, so that no step of the handler sees it.
DeadlineExpires ==
    /\ pc = "plan"
    /\ day_offset < req.num_days
    /\ TodaysFarms # <<>>
    /\ deadline_expired_on = None
    /\ deadline_expired_on' = <<day_offset>>
    /\ UNCHANGED <<handler, now, returned_ids, greedy>>

ServiceNext ==
    \/ RejectEmptyFarms
    \/ BeginPlanning
    \/ PlanBlankDay
    \/ PlanDaySolved
    \/ PlanDayFallback
    \/ Respond
    \/ Tick
    \/ OtherCallResponds
    \/ CollaboratorRaises
    \/ DeadlineExpires

\* the handler among other calls, under a wall clock, with collaborators
\* that may raise and a caller whose deadline may run out
ServiceSpec == ServiceInit /\ [][ServiceNext]_vars

\* ------------------------------ greedy_route_assignment, statement by statement
\* The arguments of a direct call.  The function validates nothing, so that
\* a truck_capacity of 0, which OptimizationRequest (line 74) refuses, can be
\* passed to it; farms have available_pigs >= 0 (line 48).
GreedyFarmLists ==
    UNION {{[k \in 1..n |-> [id |-> k, location |-> fs[k].location,
                             available_pigs |-> fs[k].available_pigs]] :
              fs \in [1..n -> [location : 1..MaxLocation,
                               available_pigs : 0..MaxGreedyPigs]]} :
           n \in 0..MaxGreedyFarms}

\* lines 454-460: the locals before the loops
GreedyLocals ==
    [trucks |-> <<>>, current_truck_id |-> 1, current_route |-> <<>>,
     current_route_distance |-> 0, current_load |-> 0, total_collected |-> 0]

\* greedy_route_assignment is called; the handler is not running
GreedyInit ==
    /\ req = None
    /\ pc = "start"
    /\ day_offset = 0
    /\ remaining_pigs = <<>>
    /\ avg_weight_kg = <<>>
    /\ farm_weeks_visited = <<>>
    /\ days_data = <<>>
    /\ solver_log = <<>>
    /\ status = 0
    /\ trucks_used_per_day = <<>>
    /\ response = None
    /\ now = 0
    /\ returned_ids = {}
    /\ deadline_expired_on = None
    /\ \E farms \in GreedyFarmLists :
       \E truck_capacity \in 0..MaxGreedyCapacity :
       \E daily_capacity \in 0..MaxGreedyDaily :
            greedy = [farms |-> farms,
                      truck_capacity |-> truck_capacity,
                      daily_capacity |-> daily_capacity,
                      sorted_farms |-> sorted_farms(farms),
                      k |-> 0,
                      pigs_available |-> 0,
                      g |-> GreedyLocals,
                      at |-> "for",
                      iterations |-> 0,
                      trucks |-> None]

\* the condition of the while statement of line 465
GreedyWhileCondition ==
    /\ greedy.pigs_available > 0
    /\ greedy.g.total_collected < greedy.daily_capacity

\* lines 462-463: the for statement takes the next farm of sorted_farms, or
\* ends when there is none
GreedyForNext ==
    /\ greedy # None
    /\ greedy.at = "for"
    /\ greedy' = IF greedy.k < Len(greedy.sorted_farms)
                 THEN [greedy EXCEPT !.k = @ + 1,
                                     !.pigs_available =
                                         greedy.sorted_farms[greedy.k + 1].available_pigs,
                                     !.at = "while"]
                 ELSE [greedy EXCEPT !.at = "flush"]
    /\ UNCHANGED <<handler, now, returned_ids, deadline_expired_on>>

\* lines 465-522: one iteration of the while loop, up to the break of
\* line 521, which is followed by the break of line 524
GreedyIterate ==
    /\ greedy # None
    /\ greedy.at = "while"
    /\ GreedyWhileCondition
    /\ LET pigs_to_collect == GreedyPigsToCollect(greedy.pigs_available,
                                  greedy.truck_capacity, greedy.g.current_load,
                                  greedy.daily_capacity, greedy.g.total_collected)
           g1 == IF pigs_to_collect > 0
                 THEN GreedyAddStop(greedy.farms, greedy.sorted_farms[greedy.k],
                                    pigs_to_collect, greedy.g)
                 ELSE greedy.g
           g2 == GreedyNewTruck(greedy.farms, greedy.truck_capacity,
                                greedy.daily_capacity, g1)
       IN  greedy' = [greedy EXCEPT
                        !.pigs_available = IF pigs_to_collect > 0
                                           THEN @ - pigs_to_collect ELSE @,
                        !.g = g2,
                        !.at = IF g2.total_collected >= greedy.daily_capacity
                               THEN "flush" ELSE "while",
                        !.iterations = Min(@ + 1, MaxIterations)]
    /\ UNCHANGED <<handler, now, returned_ids, deadline_expired_on>>

\* lines 465, 524-525: the while condition fails; the for loop is left when
\* the day is full and goes on otherwise
GreedyLeaveWhile ==
    /\ greedy # None
    /\ greedy.at = "while"
    /\ ~GreedyWhileCondition
    /\ greedy' = [greedy EXCEPT
                    !.at = IF greedy.g.total_collected >= greedy.daily_capacity
                           THEN "flush" ELSE "for"]
    /\ UNCHANGED <<handler, now, returned_ids, deadline_expired_on>>

\* lines 527-544: the route still open becomes the last truck; return
GreedyReturn ==
    /\ greedy # None
    /\ greedy.at = "flush"
    /\ greedy' = [greedy EXCEPT
                    !.trucks = IF greedy.g.current_route # <<>>
                               THEN GreedyCloseTruck(greedy.farms, greedy.g).trucks
                               ELSE greedy.g.trucks,
                    !.at = "returned"]
    /\ UNCHANGED <<handler, now, returned_ids, deadline_expired_on>>

GreedyNext ==
    \/ GreedyForNext
    \/ GreedyIterate
    \/ GreedyLeaveWhile
    \/ GreedyReturn

\* A call of greedy_route_assignment runs in the thread of its caller, which
\* executes the next statement as long as there is one.
GreedySpec == GreedyInit /\ [][GreedyNext]_vars /\ WF_vars(GreedyNext)

\* ===================================================================
\* Properties
\* ===================================================================
Days == 1..Len(days_data)
TrucksOf(d) == {days_data[d].trucks[t] : t \in 1..Len(days_data[d].trucks)}
TruckHead(truck) == SumSeq([k \in 1..Len(truck.route) |-> truck.route[k].pigs])
DayHead(d) == SumSeq([k \in 1..Len(StopsOf(days_data[d].trucks)) |->
                        StopsOf(days_data[d].trucks)[k].pigs])
OnSolverPath(d) == solver_log[d].called /\ solver_log[d].solution # NoSolution
OnFallbackPath(d) == solver_log[d].called /\ solver_log[d].solution = NoSolution
OfferedHead(d) == SumSeq([k \in 1..Len(solver_log[d].day_farms) |->
                            solver_log[d].day_farms[k].available_pigs])

\* head picked up at farm id on day d, over all trucks
PickedOn(d, id) ==
    LET stops == StopsOf(days_data[d].trucks)
    IN  SumSeq([k \in 1..Len(stops) |-> IF stops[k].id = id THEN stops[k].pigs ELSE 0])
Picked(id) == SumSeq([d \in Days |-> PickedOn(d, id)])
HasStop(d, id) == \E k \in 1..Len(StopsOf(days_data[d].trucks)) :
                    StopsOf(days_data[d].trucks)[k].id = id
Planned == pc \in {"plan", "done"} /\ req.farms # <<>>

\* C1: on every day, the head counts of the stops of each emitted truck sum to
\* at most the truck capacity, for solver routes and for fallback routes.
C1_CapacityRespected ==
    \A d \in Days : \A truck \in TrucksOf(d) : TruckHead(truck) <= req.truck_capacity

\* a solver day and a fallback day of one plan, each with a truck of several
\* stops that is exactly full
C1_Witness ==
    \E d1, d2 \in Days :
        /\ OnSolverPath(d1) /\ OnFallbackPath(d2)
        /\ \E truck \in TrucksOf(d1) :
                Len(truck.route) >= 2 /\ TruckHead(truck) = req.truck_capacity
        /\ \E truck \in TrucksOf(d2) :
                Len(truck.route) >= 2 /\ TruckHead(truck) = req.truck_capacity

\* C2: on every day, the head picked up over all trucks is at most the daily
\* capacity of the slaughterhouse, also when that capacity is 0.
C2_DailyCapRespected ==
    \A d \in Days : DayHead(d) <= req.daily_capacity

\* a solver day and a fallback day of one plan on which more head was
\* offered than the daily capacity, and exactly the daily capacity was taken
C2_Witness ==
    \E d1, d2 \in Days :
        /\ OnSolverPath(d1) /\ OnFallbackPath(d2)
        /\ OfferedHead(d1) > req.daily_capacity /\ DayHead(d1) = req.daily_capacity
        /\ OfferedHead(d2) > req.daily_capacity /\ DayHead(d2) = req.daily_capacity
        /\ Len(days_data[d1].trucks) >= 2

\* with a daily capacity of 0 the solver is still called and nothing is emitted
C2_ZeroCapacityReached ==
    \E d \in Days : OnSolverPath(d) /\ req.daily_capacity = 0 /\ days_data[d].trucks = <<>>

\* C3: every truck of every day record has at most 3 stops, fallback routes
\* included.
C3_StopCapRespected ==
    \A d \in Days : \A truck \in TrucksOf(d) : Len(truck.route) <= MaxStopsPerRoute

\* C4: within one day no farm id appears in two stops, neither within one
\* truck nor across trucks.
C4_DistinctSitesPerDay ==
    \A d \in Days :
        LET stops == StopsOf(days_data[d].trucks)
        IN  \A i, j \in 1..Len(stops) : stops[i].id = stops[j].id => i = j

WeekOf(d) == current_week(days_data[d].timedatestamp, req.planning_days_per_week)
OfferedOn(d, id) == \E k \in 1..Len(solver_log[d].day_farms) : solver_log[d].day_farms[k].id = id
InitialHead(id) == req.farms[id].available_pigs

\* C5: a farm has stops in at most one day record of a week bucket, and once it
\* has a stop in a week it is not offered to the routing on any later day of
\* that week.
C5_WeeklyUniqueness ==
    Planned =>
        \A id \in FarmIds : \A d1, d2 \in Days :
            (d1 < d2 /\ WeekOf(d1) = WeekOf(d2) /\ HasStop(d1, id))
                => ~HasStop(d2, id) /\ ~OfferedOn(d2, id)

\* a farm with a stop on the first day and head left is kept out of the next
\* day's routing, which serves another farm, and has a stop again in the
\* following week
C5_Witness ==
    /\ Planned
    /\ \E id \in FarmIds : \E d1, d2, d3 \in Days :
        /\ d1 < d2 /\ d2 < d3
        /\ WeekOf(d1) = WeekOf(d2) /\ WeekOf(d3) # WeekOf(d1)
        /\ HasStop(d1, id) /\ PickedOn(d1, id) < InitialHead(id)
        /\ solver_log[d2].called /\ days_data[d2].trucks # <<>>
        /\ HasStop(d3, id)

\* C6: a request with an empty farms list is answered with status 400 and no
\* plan.
C6_EmptyFarmsIs400 ==
    (pc = "done" /\ req.farms = <<>>) => (status = 400 /\ days_data = <<>>)

\* C7: over the horizon the head picked up is at most the initial head, per
\* farm and in total, what is picked up at a farm is what its inventory lost,
\* and the totals are equal only if every farm ends with no head left.
C7_Conservation ==
    Planned =>
        LET total_picked == SumSeq([id \in FarmIds |-> Picked(id)])
            total_initial == SumSeq([id \in FarmIds |-> InitialHead(id)])
        IN  /\ \A id \in FarmIds : Picked(id) <= InitialHead(id)
            /\ \A id \in FarmIds : remaining_pigs[id] = InitialHead(id) - Picked(id)
            /\ total_picked <= total_initial
            /\ total_picked = total_initial => \A id \in FarmIds : remaining_pigs[id] = 0

\* a finished plan that took every head of several farms, one of them over
\* two days, and a finished plan that left head behind
C7_Witness ==
    /\ pc = "done" /\ status = 200
    /\ Len(req.farms) >= 2
    /\ \A id \in FarmIds : Picked(id) = InitialHead(id)
    /\ \E id \in FarmIds : \E d1, d2 \in Days : d1 # d2 /\ HasStop(d1, id) /\ HasStop(d2, id)

C7_LeftoverReached ==
    /\ pc = "done" /\ status = 200
    /\ \E id \in FarmIds : 0 < Picked(id) /\ Picked(id) < InitialHead(id)

\* C8: the remaining head of every farm is never negative and never increases
\* from one day to the next.
C8_MonotoneInventory ==
    /\ [](Planned => \A id \in FarmIds : remaining_pigs[id] >= 0)
    /\ [][pc = "plan" => \A id \in FarmIds : remaining_pigs'[id] <= remaining_pigs[id]]_vars

\* one farm emptied over two days and another farm partly collected
C8_Witness ==
    /\ Planned
    /\ \E id \in FarmIds : \E d1, d2 \in Days :
        /\ d1 # d2 /\ HasStop(d1, id) /\ HasStop(d2, id)
        /\ remaining_pigs[id] = 0
    /\ \E id \in FarmIds : 0 < remaining_pigs[id] /\ remaining_pigs[id] < InitialHead(id)

\* length in metres of the polyline slaughterhouse -> locs in order -> slaughterhouse
PolylineMetres(locs) ==
    LET pts == <<SlaughterhouseLocation>> \o locs \o <<SlaughterhouseLocation>>
    IN  SumSeq([k \in 1..(Len(pts) - 1) |-> haversine_distance(pts[k], pts[k + 1])])

\* the polyline through the stops a truck emitted
EmittedPolyline(truck) ==
    PolylineMetres([k \in 1..Len(truck.route) |-> req.farms[truck.route[k].id].location])

\* the route the solver gave the vehicle of a truck of day d, and its polyline
SolverPath(d, truck) == solver_log[d].solution[truck.id]
SolverPathPolyline(d, truck) ==
    LET active_farms == ActiveFarms(solver_log[d].day_farms)
    IN  PolylineMetres([k \in 1..Len(SolverPath(d, truck)) |->
                            active_farms[SolverPath(d, truck)[k]].location])

\* a distance_km (hundredths of a km) is the rounding of a length in metres
RoundingOf(distance_km, metres) == Abs(10 * distance_km - metres) <= 5

\* C9 as claimed: the distance of every emitted truck is, up to rounding, the
\* length of the polyline slaughterhouse -> its emitted stops -> slaughterhouse.
C9_DistanceOfEmittedStops ==
    \A d \in Days : \A truck \in TrucksOf(d) :
        RoundingOf(truck.distance_km, EmittedPolyline(truck))

\* C9 as amended: the distance of a solver truck is, up to rounding, the
\* length of the polyline through every node of the route the solver gave its
\* vehicle, which is the polyline of its emitted stops when every node of the
\* route emitted a stop and is never shorter; the distance of a fallback truck
\* is the polyline of its emitted stops.
C9_DistanceClosure ==
    \A d \in Days : \A truck \in TrucksOf(d) :
        /\ OnSolverPath(d) =>
            /\ RoundingOf(truck.distance_km, SolverPathPolyline(d, truck))
            /\ Len(SolverPath(d, truck)) = Len(truck.route)
                    => RoundingOf(truck.distance_km, EmittedPolyline(truck))
            /\ 10 * truck.distance_km + 5 >= EmittedPolyline(truck)
        /\ OnFallbackPath(d) => RoundingOf(truck.distance_km, EmittedPolyline(truck))

\* a solver truck that passed a farm without emitting a stop there and whose
\* distance is longer than the polyline of its stops, next to a solver truck
\* of several stops that emitted a stop at every node, and a fallback truck
\* of several stops at different locations
C9_Witness ==
    /\ \E d \in Days : \E truck \in TrucksOf(d) :
        /\ OnSolverPath(d)
        /\ Len(SolverPath(d, truck)) > Len(truck.route)
        /\ 10 * truck.distance_km > EmittedPolyline(truck) + 5
    /\ \E d \in Days : \E truck \in TrucksOf(d) :
        /\ OnFallbackPath(d)
        /\ Len(truck.route) >= 2
        /\ req.farms[truck.route[1].id].location # req.farms[truck.route[2].id].location

\* C10: when the solver returns no solution for a day, the day's routes are the
\* output of the greedy fallback on the same active farms and capacities, the
\* request completes with a plan of num_days records, and no error status is
\* produced.
C10_FallbackOnNoSolution ==
    Planned =>
        /\ \A d \in Days :
            OnFallbackPath(d) =>
                days_data[d].trucks =
                    greedy_route_assignment(ActiveFarms(solver_log[d].day_farms),
                                            req.truck_capacity, req.daily_capacity)
        /\ status \in {0, 200}
        /\ pc = "done" => status = 200 /\ Len(days_data) = req.num_days

\* a finished plan with a day for which no assignment of the farms to the
\* vehicles exists, served by the fallback
C10_Witness ==
    /\ pc = "done" /\ status = 200
    /\ \E d \in Days :
        /\ OnFallbackPath(d)
        /\ days_data[d].trucks # <<>>
        /\ LET active_farms == ActiveFarms(solver_log[d].day_farms)
           IN  FeasibleSolutions(active_farms, Len(active_farms),
                                 min_vehicles(active_farms, req.truck_capacity,
                                              req.daily_capacity),
                                 req.truck_capacity) = {}

\* --- C11: a successful plan has exactly num_days day records, the record
\* of day offset t being the t-th (dates strictly increasing, date = start
\* date + t days), days on which nothing is collected included.
C11_OneRecordPerDay ==
    status = 200 =>
        /\ Len(days_data) = req.num_days
        /\ \A d \in Days : days_data[d].timedatestamp = d - 1
        /\ \A d \in Days : d > 1 => days_data[d - 1].timedatestamp < days_data[d].timedatestamp

\* a finished plan of three days with a day of pickups and a blank day
C11_Witness ==
    /\ status = 200
    /\ req.num_days = MaxDays
    /\ \E d \in Days : days_data[d].trucks # <<>>
    /\ \E d \in Days : days_data[d].trucks = <<>> /\ ~solver_log[d].called

\* --- C12: compute_weight_penalty maps a mean weight w to 0 when w <= 0,
\* to 0 when 105 <= w <= 115, to 0.20 when 0 < w < 100 or w > 120, and to
\* 0.15 otherwise, that is exactly on [100, 105) and (115, 120].
PlannedDays == {d \in 1..Len(solver_log) : solver_log[d].called}
MeanWeight(d) == solver_log[d].avg_delivered_weight_kg
Grams(kg, w) == kg * 1000 * w.den

C12_PenaltyTable ==
    \A d \in PlannedDays :
        LET w == MeanWeight(d)
            penalty == solver_log[d].penalty_factor
        IN  /\ w.num <= 0 => penalty = 0
            /\ (Grams(105, w) <= w.num /\ w.num <= Grams(115, w)) => penalty = 0
            /\ ((0 < w.num /\ w.num < Grams(100, w)) \/ w.num > Grams(120, w)) => penalty = 20
            /\ penalty = 15 <=> \/ (Grams(100, w) <= w.num /\ w.num < Grams(105, w))
                                \/ (Grams(115, w) < w.num /\ w.num <= Grams(120, w))
            /\ penalty \in {0, 15, 20}

\* a plan in which one day delivers a mean of exactly 105 kg, without
\* penalty, and another day a mean above 120 kg, charged 0.20
C12_Witness ==
    /\ \E d \in PlannedDays :
          /\ MeanWeight(d).num = Grams(105, MeanWeight(d))
          /\ solver_log[d].penalty_factor = 0
    /\ \E d \in PlannedDays :
          /\ MeanWeight(d).num > Grams(120, MeanWeight(d))
          /\ solver_log[d].penalty_factor = 20

\* the boundary 120 kg and the shoulder above 115 kg are reached
C12_UpperShoulderReached ==
    /\ \E d \in PlannedDays :
          /\ MeanWeight(d).num = Grams(120, MeanWeight(d))
          /\ solver_log[d].penalty_factor = 15
    /\ \E d \in PlannedDays :
          /\ MeanWeight(d).num > Grams(120, MeanWeight(d))
          /\ solver_log[d].penalty_factor = 20

\* the boundary 100 kg and the weights below it are reached
C12_LowerShoulderReached ==
    /\ \E d \in PlannedDays :
          /\ MeanWeight(d).num = Grams(100, MeanWeight(d))
          /\ solver_log[d].penalty_factor = 15
    /\ \E d \in PlannedDays :
          /\ 0 < MeanWeight(d).num /\ MeanWeight(d).num < Grams(100, MeanWeight(d))
          /\ solver_log[d].penalty_factor = 20

\* a mean weight of 0 is reached on a day with pickups
C12_DegenerateReached ==
    \E d \in PlannedDays :
        /\ MeanWeight(d).num = 0
        /\ days_data[d].trucks # <<>>
        /\ solver_log[d].penalty_factor = 0

\* --- C13: for every day with totalKg > 0, revenue = totalKg * price_per_kg
\* * (1 - penalty(wbar)), wbar being the day's kg per head; a day whose
\* delivered mean weight is 122 kg earns 80% of the unpenalised revenue.
\* The kg are those of spec 4.5 (head times start-of-day weight, summed),
\* and the revenue is emitted rounded to cents.
DayKg(d) ==
    LET stops == StopsOf(days_data[d].trucks)
    IN  SumSeq([k \in 1..Len(stops) |->
                  stops[k].pigs * solver_log[d].farm_weight_snapshot[stops[k].id]])

\* the penalty table of spec 4.4 for a mean weight of kg grams per head, in hundredths
TablePenalty(kg, head) ==
    IF kg <= 0 THEN 0
    ELSE IF 105000 * head <= kg /\ kg <= 115000 * head THEN 0
    ELSE IF kg < 100000 * head \/ kg > 120000 * head THEN 20
    ELSE 15

\* cents is kg * price * factor / 100000 rounded to the nearest integer
\* (kg in grams, factor in hundredths)
IsRounded(cents, kg, price, factor) ==
    LET whole == (kg \div 1000) * price * factor
        rest  == (kg % 1000) * price * factor
    IN  /\ Abs(100 * cents - whole) <= price * factor + 50
        /\ (100 * cents - 50 - whole) * 1000 <= rest
        /\ rest < (100 * cents + 50 - whole) * 1000

C13_RevenueWithPenalty ==
    \A d \in Days :
        days_data[d].totalKg > 0 =>
            /\ IsRounded(days_data[d].totalEuros, DayKg(d), req.price_per_kg,
                         100 - TablePenalty(DayKg(d), DayHead(d)))
            /\ DayKg(d) = 122000 * DayHead(d) =>
                  IsRounded(days_data[d].totalEuros, DayKg(d), req.price_per_kg, 80)

\* one pig of 122 kg at 1.56 per kg: 190.32 unpenalised, 152.26 emitted
C13_Witness ==
    \E d \in Days :
        /\ DayHead(d) = 1
        /\ days_data[d].totalKg = 12200
        /\ req.price_per_kg = 156
        /\ days_data[d].totalEuros = 15226

\* a day in the moderate band: two pigs of 115.004 kg, 358.81 unpenalised, 304.99 emitted
C13_ModerateReached ==
    \E d \in Days :
        /\ DayHead(d) = 2
        /\ DayKg(d) = 230008
        /\ days_data[d].totalKg = 23001
        /\ days_data[d].totalEuros = 30499

\* --- C14: a day's totalKg is the sum over the day's stops of the stop's
\* head times the site's mean weight at the start of that day, before that
\* day's inventory update and weight growth (emitted rounded to 2 decimals).
StartOfDayKg(trucks) ==
    LET stops == StopsOf(trucks)
    IN  SumSeq([k \in 1..Len(stops) |-> stops[k].pigs * avg_weight_kg[stops[k].id]])

C14_KgFromSnapshot ==
    [][(pc = "plan" /\ Len(days_data') = Len(days_data) + 1) =>
          LET day == days_data'[Len(days_data')]
              kg  == StartOfDayKg(day.trucks)
          IN  /\ 10 * day.totalKg - 5 <= kg
              /\ kg < 10 * day.totalKg + 5]_vars

\* a day with pickups at a farm that keeps pigs and has gained weight since
C14_Witness ==
    \E d \in Days : \E id \in FarmIds :
        /\ pc = "plan"
        /\ HasStop(d, id)
        /\ days_data[d].totalKg > 0
        /\ remaining_pigs[id] > 0
        /\ avg_weight_kg[id] > solver_log[d].farm_weight_snapshot[id]
        /\ days_data[d].totalKg * 10 = DayKg(d)

\* --- C15: with a weekly gain dw > 0 and W operating days per week, a site
\* picked up on day t is weighed at initialWeight + t * (dw / W): the
\* growth dw / W is applied at the end of each of the days 0..t-1, blank
\* days included (dw = 2.0, W = 5, day 6: initialWeight + 2.4).
InitialWeight(id) ==
    IF req.farms[id].avg_weight_kg = None THEN req.avg_pig_weight_kg
    ELSE req.farms[id].avg_weight_kg[1]

GrownWeight(id, t) ==
    InitialWeight(id) + (t * req.weekly_weight_gain_kg) \div req.planning_days_per_week

GrownKg(d) ==
    LET stops == StopsOf(days_data[d].trucks)
    IN  SumSeq([k \in 1..Len(stops) |-> stops[k].pigs * GrownWeight(stops[k].id, d - 1)])

C15_WeightGrowth ==
    req.weekly_weight_gain_kg > 0 =>
        \A d \in Days :
            /\ \A id \in FarmIds :
                  HasStop(d, id) =>
                      solver_log[d].farm_weight_snapshot[id] = GrownWeight(id, d - 1)
            /\ 10 * days_data[d].totalKg - 5 <= GrownKg(d)
            /\ GrownKg(d) < 10 * days_data[d].totalKg + 5

\* the farm of 104.996 kg is collected on day 6, after three blank days,
\* at 107.396 kg
C15_Witness ==
    /\ req.weekly_weight_gain_kg = 2000
    /\ req.planning_days_per_week = 5
    /\ Len(days_data) = 7
    /\ \A d \in 3..5 : days_data[d].trucks = <<>>
    /\ HasStop(7, 2)
    /\ InitialWeight(2) = 104996
    /\ solver_log[7].farm_weight_snapshot[2] = 107396
    /\ days_data[7].totalKg = 10740

\* --- C16: depleted is terminal: once a site's remaining head is 0 it stays
\* 0, the site is never again admissible, never again has a stop, and its
\* mean weight no longer changes.
C16_DepletedIsTerminal ==
    [][\A id \in DOMAIN remaining_pigs :
          (pc = "plan" /\ remaining_pigs[id] = 0) =>
              /\ remaining_pigs'[id] = 0
              /\ avg_weight_kg'[id] = avg_weight_kg[id]
              /\ Len(days_data') > Len(days_data) =>
                    LET day == days_data'[Len(days_data')]
                        offered == solver_log'[Len(solver_log')].day_farms
                    IN  /\ \A k \in 1..Len(StopsOf(day.trucks)) : StopsOf(day.trucks)[k].id # id
                        /\ \A k \in 1..Len(offered) : offered[k].id # id]_vars

\* a farm depleted on an earlier day keeps the weight of that day while
\* another farm has grown and been collected since
C16_Witness ==
    \E d \in Days : \E id \in FarmIds : \E other \in FarmIds :
        /\ req.weekly_weight_gain_kg > 0
        /\ HasStop(d, id)
        /\ remaining_pigs[id] = 0
        /\ avg_weight_kg[id] = solver_log[d].farm_weight_snapshot[id]
        /\ \E e \in Days : e > d /\ HasStop(e, other)
        /\ avg_weight_kg[other] > InitialWeight(other)

\* --- C17: a site visited in week w that still has head left is back in
\* the admissible set on the first day of week w + 1 (day (w + 1) * W, when
\* inside the horizon) and is in no admissible set in between.
LeftAfter(d, id) ==
    InitialHead(id) - SumSeq([e \in 1..d |-> PickedOn(e, id)])

C17_BackNextWeek ==
    \A d \in Days : \A id \in FarmIds :
        HasStop(d, id) =>
            LET W == req.planning_days_per_week
                w == (d - 1) \div W
                back == (w + 1) * W + 1
            IN  /\ \A e \in Days : (d < e /\ e < back) => ~OfferedOn(e, id)
                /\ (back \in Days /\ LeftAfter(d, id) > 0) => OfferedOn(back, id)

\* a farm visited in week 0 with head left is offered again on day 2
C17_Witness ==
    \E d \in Days : \E id \in FarmIds :
        /\ d <= req.planning_days_per_week
        /\ HasStop(d, id)
        /\ LeftAfter(d, id) > 0
        /\ Len(days_data) > req.planning_days_per_week
        /\ OfferedOn(req.planning_days_per_week + 1, id)
        /\ HasStop(req.planning_days_per_week + 1, id)

\* --- C18: three sites with 150, 200 and 100 head, Q = 250, D = 500,
\* H = 5, W = 5, mean weight 110, price 2.2: day 0 visits all three sites
\* with exactly 2 trucks and 450 head, totalKg = 49500, penalty 0, revenue
\* 108900; days 1..4 are blank.  For every solution of the solver and for
\* the fallback.
ThreeSites == req \in TestOptimizeSimple /\ req.avg_pig_weight_kg = 110000

C18_ThreeSites ==
    (ThreeSites /\ Planned) =>
        \A d \in Days :
            IF d = 1
            THEN /\ \A id \in FarmIds : HasStop(d, id)
                 /\ Len(days_data[d].trucks) = 2
                 /\ DayHead(d) = 450
                 /\ days_data[d].totalKg = 4950000
                 /\ solver_log[d].penalty_factor = 0
                 /\ days_data[d].totalEuros = 10890000
            ELSE /\ days_data[d].trucks = <<>>
                 /\ days_data[d].totalKg = 0
                 /\ days_data[d].totalEuros = 0

\* the finished plan of five days, day 0 planned from a solution of the solver
C18_Witness ==
    /\ ThreeSites
    /\ status = 200
    /\ Len(days_data) = 5
    /\ OnSolverPath(1)
    /\ DayHead(1) = 450

\* the finished plan of five days, day 0 planned by the fallback, which
\* splits a site over the two trucks
C18_FallbackReached ==
    /\ ThreeSites
    /\ status = 200
    /\ OnFallbackPath(1)
    /\ \E id \in FarmIds : \A t \in 1..2 :
          \E k \in 1..Len(days_data[1].trucks[t].route) : days_data[1].trucks[t].route[k].id = id

\* --- C19: a single site with 500 head, Q = 50, D = 100, H = 3 (W = 5):
\* day 0 ships exactly 100 head with exactly 2 trucks, and on days 1 and 2
\* the weekly ledger blocks the site, so nothing is shipped although 400
\* head remain.
C19_DailyCapSaturation ==
    (req \in TestSmallCapacity /\ Planned) =>
        \A d \in Days :
            IF d = 1
            THEN /\ DayHead(d) = 100
                 /\ Len(days_data[d].trucks) = 2
            ELSE /\ days_data[d].trucks = <<>>
                 /\ solver_log[d].day_farms = <<>>
                 /\ ~solver_log[d].called
                 /\ remaining_pigs[1] = 400
                 /\ farm_weeks_visited[1] = {0}

C19_Witness ==
    /\ req \in TestSmallCapacity
    /\ status = 200
    /\ Len(days_data) = 3
    /\ DayHead(1) = 100
    /\ remaining_pigs[1] = 400

\* --- C20: a single site whose available head is at most min(Q, D) (200
\* head, Q = 250, D = 300, H = 5, W = 5) is collected in full on day 0 by
\* exactly one truck with one stop, and days 1..H-1 have no pickups.
SingleSite == Len(req.farms) = 1
SmallSite ==
    /\ SingleSite
    /\ req.farms[1].available_pigs <= Min(req.truck_capacity, req.daily_capacity)

OneTruckThenNothing ==
    \A d \in Days :
        IF d = 1
        THEN /\ Len(days_data[d].trucks) = 1
             /\ days_data[d].trucks[1].route = <<[id |-> 1, pigs |-> req.farms[1].available_pigs]>>
        ELSE days_data[d].trucks = <<>>

\* as stated: for every available head of at most min(Q, D)
C20_SmallSiteInOneTruck ==
    (SmallSite /\ Planned) => OneTruckThenNothing

\* for a positive available head of at most min(Q, D)
C20_PositiveSmallSiteInOneTruck ==
    (SmallSite /\ req.farms[1].available_pigs > 0 /\ Planned) => OneTruckThenNothing

\* the request of test_api.py: 200 head in one truck on day 0 over
\* 2 * 11.12 km, then four days without pickups
C20_Witness ==
    /\ SmallSite
    /\ req.farms[1].available_pigs = 200
    /\ req.num_days = 5
    /\ req.planning_days_per_week = 5
    /\ status = 200
    /\ Len(days_data) = 5
    /\ days_data[1].trucks = <<[id |-> 1, route |-> <<[id |-> 1, pigs |-> 200]>>,
                                distance_km |-> 2224]>>
    /\ \A d \in 2..5 : days_data[d].trucks = <<>>

\* ------------------------------------------------------------------ C21
\* the response of a call that succeeded
Answered == pc = "done" /\ status = 200
Emitted == response.days

\* the sum of one figure over the emitted days
RECURSIVE SumTo(_, _)
SumTo(F(_), d) == IF d = 0 THEN 0 ELSE SumTo(F, d - 1) + F(Emitted[d])

EmittedRevenue == SumTo(LAMBDA day : day.totalEuros, Len(Emitted))
EmittedTripCost == SumTo(LAMBDA day : day.fuelCostEuros, Len(Emitted))
EmittedTruckCost == SumTo(LAMBDA day : day.truckCostEuros, Len(Emitted))
EmittedNetProfit == SumTo(LAMBDA day : day.netProfitEuros, Len(Emitted))
EmittedDistance == SumTo(LAMBDA day : day.totalDistanceKm, Len(Emitted))
EmittedTrucks == SumTo(LAMBDA day : Len(day.trucks), Len(Emitted))
EmittedHead ==
    SumTo(LAMBDA day : SumSeq([k \in 1..Len(StopsOf(day.trucks)) |-> StopsOf(day.trucks)[k].pigs]),
          Len(Emitted))

Pow10(k) == IF k = 0 THEN 1 ELSE IF k = 1 THEN 10 ELSE IF k = 2 THEN 100
            ELSE IF k = 3 THEN 1000 ELSE 10000

\* q is an integer nearest to n * 10^digits / d, for d > 0
RECURSIVE Nearest(_, _, _, _)
Nearest(q, n, d, digits) ==
    IF digits = 0 THEN Abs(q * d - n) <= d \div 2
    ELSE Nearest(q - Pow10(digits) * (n \div d), (n % d) * 10, d, digits - 1)

\* C21: the summary of a response is the summary of its day records: the
\* sums of revenue, trip cost, truck cost, net profit, head and distance
\* over the emitted days, the largest and the mean number of trucks of a
\* day, the number of days, the margin net profit / revenue (0 when the
\* revenue is 0) and the cost and the revenue per head (0 when no head
\* was collected), each rounded to 2 decimals.
C21_SummaryOfEmittedDays ==
    Answered =>
        LET s == response.summary
        IN  /\ s.total_days = Len(Emitted)
            /\ s.total_revenue_euros = EmittedRevenue
            /\ s.total_fuel_cost_euros = EmittedTripCost
            /\ s.total_truck_cost_euros = EmittedTruckCost
            /\ s.total_costs_euros = EmittedTripCost + EmittedTruckCost
            /\ s.total_net_profit_euros = EmittedNetProfit
            /\ s.total_pigs_collected = EmittedHead
            /\ s.total_distance_km = EmittedDistance
            /\ \A d \in 1..Len(Emitted) : Len(Emitted[d].trucks) <= s.max_trucks_per_day
            /\ \/ \E d \in 1..Len(Emitted) : Len(Emitted[d].trucks) = s.max_trucks_per_day
               \/ Emitted = <<>> /\ s.max_trucks_per_day = 0
            /\ Emitted # <<>> => Nearest(s.avg_trucks_per_day, EmittedTrucks, Len(Emitted), 2)
            /\ IF EmittedRevenue > 0
               THEN Nearest(s.profit_margin_percent, EmittedNetProfit, EmittedRevenue, 4)
               ELSE s.profit_margin_percent = 0
            /\ IF EmittedHead > 0
               THEN /\ Nearest(s.cost_per_pig_euros, EmittedTripCost + EmittedTruckCost,
                               EmittedHead, 0)
                    /\ Nearest(s.revenue_per_pig_euros, EmittedRevenue, EmittedHead, 0)
               ELSE s.cost_per_pig_euros = 0 /\ s.revenue_per_pig_euros = 0

\* test_optimize_simple: two trucks collect the 450 head on day 0 and the
\* other four days are blank: a mean of 0.4 trucks a day, and a net profit
\* that is not the difference of the rounded totals
C21_Witness ==
    /\ Answered
    /\ req \in TestOptimizeSimple
    /\ response.summary.total_days = 5
    /\ response.summary.total_pigs_collected = 450
    /\ response.summary.max_trucks_per_day = 2
    /\ response.summary.avg_trucks_per_day = 40
    /\ response.summary.total_revenue_euros > 0
    /\ response.summary.total_fuel_cost_euros > 0
    /\ response.summary.total_net_profit_euros
         # response.summary.total_revenue_euros - response.summary.total_costs_euros

\* a plan that collects nothing: no revenue and no head, hence a margin and
\* per-head figures of 0
C21_NothingCollectedReached ==
    /\ Answered
    /\ response.summary.total_revenue_euros = 0
    /\ response.summary.total_pigs_collected = 0
    /\ response.summary.profit_margin_percent = 0
    /\ response.summary.cost_per_pig_euros = 0
    /\ response.summary.revenue_per_pig_euros = 0

\* ------------------------------------------------------------------ C22
\* C22: the id of a response differs from the id of the response of every
\* other call of the endpoint, also of a call that responds within the same
\* clock second or in parallel.
C22_UniquePlanId ==
    Answered => response.id \notin returned_ids

\* ------------------------------------------------------------------ C23
\* C23: when a collaborator raises while a day is planned, whatever the
\* class of the exception, the caller receives status 500 and no response
\* body with day records, although days were planned before.
C23_CollaboratorErrorIs500 ==
    [][CollaboratorRaises => (status' = 500 /\ response' = None)]_vars

\* ------------------------------------------------------------------ C24
\* the day records the caller receives
ReturnedDays == IF response = None THEN <<>> ELSE response.days

\* C24: when the caller's deadline ran out in the solver call of day t, the
\* caller receives an error together with the records of the days 0..t-1,
\* and no record of day t.
C24_DeadlineKeepsCompletedDays ==
    (pc = "done" /\ deadline_expired_on # None) =>
        /\ status # 200
        /\ ReturnedDays = SubSeq(days_data, 1, deadline_expired_on[1])

\* ------------------------------------------------------------------ C26
\* the least fleet of at least one truck that holds min(offered head, D)
FleetFor(d) ==
    LET head == Min(OfferedHead(d), req.daily_capacity)
    IN  CHOOSE v \in 1..(head + 1) :
            /\ v * req.truck_capacity >= head
            /\ v = 1 \/ (v - 1) * req.truck_capacity < head

C26_FewerTrucksReached ==
    \E d \in Days :
        /\ OnSolverPath(d)
        /\ Len(days_data[d].trucks) < FleetFor(d)

\* ------------------------------------------------------------------ C27
FallbackDays == {d \in Days : OnFallbackPath(d)}

\* C27: for a non-empty list of farms with positive head, Q >= 1 and
\* D >= 1, the fallback returns at least one truck, and the head of its
\* trucks is min(offered head, D).
C27_FallbackProgress ==
    \A d \in FallbackDays :
        (/\ solver_log[d].day_farms # <<>>
         /\ \A k \in 1..Len(solver_log[d].day_farms) :
                solver_log[d].day_farms[k].available_pigs > 0
         /\ req.truck_capacity >= 1
         /\ req.daily_capacity >= 1) =>
            /\ Len(days_data[d].trucks) >= 1
            /\ DayHead(d) = Min(OfferedHead(d), req.daily_capacity)

\* a plan with a fallback day that takes everything offered in trucks of
\* which the last is not full, and a fallback day cut off by D
C27_Witness ==
    /\ \E d \in FallbackDays :
          /\ Len(solver_log[d].day_farms) >= 2
          /\ OfferedHead(d) < req.daily_capacity
          /\ DayHead(d) = OfferedHead(d)
          /\ DayHead(d) % req.truck_capacity # 0
    /\ \E d \in FallbackDays :
          /\ OfferedHead(d) > req.daily_capacity
          /\ req.daily_capacity >= 1
          /\ DayHead(d) = req.daily_capacity

\* ------------------------------------------------------------------ C28
\* C28: the trucks of the fallback have the ids 1, 2, ..., k in the order
\* of the list, every truck has at least one stop and every stop at least
\* one head, and every truck but the last carries exactly Q head.
C28_FallbackTrucks ==
    \A d \in FallbackDays :
        LET trucks == days_data[d].trucks
        IN  \A t \in 1..Len(trucks) :
                /\ trucks[t].id = t
                /\ Len(trucks[t].route) >= 1
                /\ \A k \in 1..Len(trucks[t].route) : trucks[t].route[k].pigs >= 1
                /\ t < Len(trucks) => TruckHead(trucks[t]) = req.truck_capacity

\* a fallback day with two trucks: a full one with two stops, and a last one
\* that is not full
C28_Witness ==
    \E d \in FallbackDays :
        LET trucks == days_data[d].trucks
        IN  /\ Len(trucks) = 2
            /\ trucks[1].id = 1 /\ trucks[2].id = 2
            /\ Len(trucks[1].route) = 2
            /\ TruckHead(trucks[1]) = req.truck_capacity
            /\ TruckHead(trucks[2]) < req.truck_capacity

\* a fallback day with the trucks 1, 2, 3 and 4
C28_FourTrucksReached ==
    \E d \in FallbackDays :
        /\ Len(days_data[d].trucks) = 4
        /\ \A t \in 1..4 : days_data[d].trucks[t].id = t

\* ------------------------------------------------------------------ C29
\* Ct: cost_per_km when the request gives it, fuel_cost_per_km otherwise
TripRate == IF req.cost_per_km = None THEN req.fuel_cost_per_km ELSE req.cost_per_km[1]

\* the sum over the day's trucks of distanceKm * Ct * truckHead
TripCostTimesQ(d) ==
    SumSeq([t \in 1..Len(days_data[d].trucks) |->
              days_data[d].trucks[t].distance_km * TripRate
                  * TruckHead(days_data[d].trucks[t])])

\* the day's revenue before rounding, as cents and 1/100000 of a cent
DayRevenue(d) ==
    AmountCents(Amount(DayKg(d), req.price_per_kg,
                       100 - TablePenalty(DayKg(d), DayHead(d))))

\* cents is the rounding of revenue - tripCost - truckCost, where the trip
\* cost is trip / (100 * Q) cent and the truck cost is truck / 7 cent
IsNetProfit(cents, revenue, trip, truck, Q) ==
    LET whole == revenue.whole - trip \div (100 * Q) - truck \div 7
        den == 700000 * Q
        num == revenue.num * 7 * Q - (trip % (100 * Q)) * 7000 - (truck % 7) * 100000 * Q
    IN  /\ Abs(cents - whole) <= 3
        /\ Abs((cents - whole) * den - num) <= den \div 2

\* C29: for every day, truckCost = trucks * truck_cost_per_week / 7, whatever
\* planning_days_per_week is; tripCost = sum over the trucks of distanceKm *
\* Ct * (truckHead / Q), with Ct = cost_per_km when given and
\* fuel_cost_per_km otherwise; netProfit = revenue - tripCost - truckCost
\* (each emitted rounded to cents); on a day with no trucks all three are 0.
C29_DayCosts ==
    \A d \in Days :
        LET day == days_data[d]
            truck == Len(day.trucks) * req.truck_cost_per_week
        IN  /\ Nearest(day.truckCostEuros, truck, 7, 0)
            /\ Nearest(day.fuelCostEuros, TripCostTimesQ(d), 100 * req.truck_capacity, 0)
            /\ IsNetProfit(day.netProfitEuros, DayRevenue(d), TripCostTimesQ(d), truck,
                           req.truck_capacity)
            /\ day.trucks = <<>> =>
                  /\ day.truckCostEuros = 0
                  /\ day.fuelCostEuros = 0
                  /\ day.netProfitEuros = 0

\* test_optimize_simple with cost_per_km = 1.20 and the farms 1, 2 and 3
\* steps away: two trucks (571.43 for the day), a trip cost at 1.20 per km
\* and not at the 0.35 of fuel_cost_per_km, and blank days of zeros after
C29_Witness ==
    /\ Answered
    /\ req \in TestOptimizeSimple
    /\ req.cost_per_km = <<120>>
    /\ Len(days_data[1].trucks) = 2
    /\ days_data[1].truckCostEuros = 57143
    /\ days_data[1].fuelCostEuros > 0
    /\ Nearest(days_data[1].fuelCostEuros, TripCostTimesQ(1), 100 * req.truck_capacity, 0)
    /\ days_data[1].netProfitEuros
         = days_data[1].totalEuros - days_data[1].fuelCostEuros - 57143
    /\ \A d \in 2..5 : /\ days_data[d].trucks = <<>>
                       /\ days_data[d].netProfitEuros = 0

\* a week of 2 planning days costs a truck 285.71 a day as well, and a trip
\* is charged at fuel_cost_per_km when cost_per_km is left out
C29_ShortWeekReached ==
    /\ req.planning_days_per_week = 2
    /\ req.cost_per_km = None
    /\ \E d \in Days :
          /\ Len(days_data[d].trucks) = 1
          /\ days_data[d].truckCostEuros = 28571
          /\ days_data[d].fuelCostEuros > 0
          /\ days_data[d].netProfitEuros < 0

OfferedHeadOf(d, id) ==
    SumSeq([k \in 1..Len(solver_log[d].day_farms) |->
              IF solver_log[d].day_farms[k].id = id
              THEN solver_log[d].day_farms[k].available_pigs ELSE 0])

\* C31: on every day and for every farm, the head of the farm's stops of
\* that day, summed over all trucks of either path, is at most the farm's
\* remaining head at the start of the day, so max(0, remaining - pigs) never
\* cuts off a negative value.
C31_NeverOverdrawn ==
    [][(pc = "plan" /\ Len(days_data') = Len(days_data) + 1) =>
          \A id \in FarmIds :
              /\ PickedOn(Len(days_data), id)' <= remaining_pigs[id]
              /\ OfferedHeadOf(Len(days_data), id)' \in {0, remaining_pigs[id]}]_vars

\* a fallback day on which a farm is emptied by the stops of two trucks, and
\* a day of the solver on which a stop takes less than the farm has
C31_Witness ==
    /\ Planned
    /\ \E d \in Days : \E id \in FarmIds :
          /\ OnFallbackPath(d)
          /\ \E t1, t2 \in 1..Len(days_data[d].trucks) :
                /\ t1 # t2
                /\ \E k \in 1..Len(days_data[d].trucks[t1].route) :
                      days_data[d].trucks[t1].route[k].id = id
                /\ \E k \in 1..Len(days_data[d].trucks[t2].route) :
                      days_data[d].trucks[t2].route[k].id = id
          /\ PickedOn(d, id) = OfferedHeadOf(d, id)
    /\ \E d \in Days : \E id \in FarmIds :
          /\ OnSolverPath(d)
          /\ 0 < PickedOn(d, id)
          /\ PickedOn(d, id) < OfferedHeadOf(d, id)

\* ------------------------------------------------------------------ C32
\* farm id was offered to the routing of day d and got no stop
PassedOver(d, id) == OfferedOn(d, id) /\ ~HasStop(d, id)

\* C32: a farm that was offered to a day's routing and got no stop that day
\* is left as it was by that day: its remaining head and its ledger of
\* visited weeks are unchanged, and it is offered again on the next day when
\* that day is of the same week.
C32_PassedOverUntouched ==
    /\ [][(pc = "plan" /\ Len(days_data') = Len(days_data) + 1) =>
            \A id \in FarmIds :
                PassedOver(Len(days_data), id)' =>
                    /\ remaining_pigs'[id] = remaining_pigs[id]
                    /\ farm_weeks_visited'[id] = farm_weeks_visited[id]
                    /\ current_week(day_offset, req.planning_days_per_week)
                          \notin farm_weeks_visited'[id]]_vars
    /\ [](\A d \in Days : \A id \in FarmIds :
            (PassedOver(d, id) /\ d + 1 \in Days /\ WeekOf(d + 1) = WeekOf(d))
                => OfferedOn(d + 1, id))

\* the daily capacity ends the first day before a farm is reached, and the
\* farm has its stop on the second day of the week
C32_Witness ==
    /\ Planned
    /\ Len(days_data) >= 2
    /\ WeekOf(1) = WeekOf(2)
    /\ DayHead(1) = req.daily_capacity
    /\ \E id \in FarmIds :
          /\ PassedOver(1, id)
          /\ OfferedOn(2, id)
          /\ OfferedHeadOf(2, id) = InitialHead(id)
          /\ HasStop(2, id)

\* a route of the solver with the three stops it may have and a fourth farm
\* on it that is passed over, the truck and the day having room for it
C32_StopCapReached ==
    /\ Planned
    /\ Len(days_data) >= 2
    /\ OnSolverPath(1)
    /\ DayHead(1) < req.daily_capacity
    /\ \E t \in 1..Len(days_data[1].trucks) :
          /\ Len(days_data[1].trucks[t].route) = MaxStopsPerRoute
          /\ TruckHead(days_data[1].trucks[t]) < req.truck_capacity
    /\ \E id \in FarmIds : PassedOver(1, id) /\ OfferedOn(2, id)

\* ------------------------------------------------------------------ C33
\* the head offered to a call of greedy_route_assignment
GreedyOffered ==
    SumSeq([k \in 1..Len(greedy.farms) |-> greedy.farms[k].available_pigs])

GreedyPositiveHead == \E k \in 1..Len(greedy.farms) : greedy.farms[k].available_pigs > 0

\* with Q >= 1 the call returns, every iteration of the inner loop assigns at
\* least one head or leaves the loop, and the inner loop runs at most
\* min(sum of available head, D) times
GreedyTerminatesWithTrucks ==
    /\ [](greedy.truck_capacity >= 1 => <>(greedy.at = "returned"))
    /\ [][(GreedyIterate /\ greedy.truck_capacity >= 1) =>
            \/ greedy'.g.total_collected > greedy.g.total_collected
            \/ greedy'.at # "while"]_vars
    /\ [](greedy.truck_capacity >= 1 =>
            greedy.iterations <= Min(GreedyOffered, greedy.daily_capacity))

\* C33 as stated: the greedy fallback terminates for every finite farm list
\* with non-negative head, every Q >= 1 and every D >= 0, each iteration of
\* its inner loop assigning at least one head or leaving the loop, so that
\* the inner loop runs at most min(sum of available head, D) times; with
\* Q = 0 and a farm with positive head the call does not return.
C33_GreedyTerminates ==
    /\ GreedyTerminatesWithTrucks
    /\ []((greedy.truck_capacity = 0 /\ GreedyPositiveHead) => greedy.at # "returned")

\* C33, amended: ... with Q = 0, a farm with positive head and D >= 1 the
\* call does not return (with D = 0 the inner loop is never entered and the
\* call returns no trucks, whatever Q is).
C33_GreedyTerminatesUnlessNoRoom ==
    /\ GreedyTerminatesWithTrucks
    /\ []((greedy.truck_capacity = 0 /\ GreedyPositiveHead /\ greedy.daily_capacity >= 1)
            => greedy.at # "returned")

\* a call with Q >= 1 that returned two trucks after as many iterations as
\* min(sum of available head, D) = 3 allows, with the trucks the planning
\* of a day gets from greedy_route_assignment
C33_Witness ==
    /\ greedy # None
    /\ greedy.at = "returned"
    /\ greedy.truck_capacity = 2
    /\ Len(greedy.farms) = 2
    /\ Min(GreedyOffered, greedy.daily_capacity) = 3
    /\ greedy.iterations = 3
    /\ Len(greedy.trucks) = 2
    /\ greedy.trucks = greedy_route_assignment(greedy.farms, greedy.truck_capacity,
                                               greedy.daily_capacity)

\* a call with Q = 0 that went round the inner loop MaxIterations times and
\* assigned nothing
C33_StalledReached ==
    /\ greedy # None
    /\ greedy.truck_capacity = 0
    /\ greedy.at = "while"
    /\ greedy.iterations = MaxIterations
    /\ greedy.g = GreedyLocals

\* a call with Q = 0, a farm with positive head and D = 0 that returned
C33_NoRoomReturnsReached ==
    /\ greedy # None
    /\ greedy.truck_capacity = 0
    /\ greedy.daily_capacity = 0
    /\ GreedyPositiveHead
    /\ greedy.at = "returned"
    /\ greedy.trucks = <<>>
    /\ greedy.iterations = 0

====
